---- MODULE Spec2Model ----
(***************************************************************************)
(* Model of the kinematic graph (RobotModelModule) and of the joint state  *)
(* conversions (RobotStateModule) of the optima robot toolbox.             *)
(*                                                                         *)
(* Vectors are sequences; an index stored in the model is the 0-based      *)
(* index of the source, so element i of a Vec v is v[i + 1].               *)
(* Option<T> is a set with at most one element: None is {} and Some(x) is  *)
(* {x}.                                                                    *)
(***************************************************************************)
EXTENDS Integers, Sequences, FiniteSets, TLC

\* ---------------------------------------------------------------------------
\* Bounds of the explored inputs
\* ---------------------------------------------------------------------------
MaxLinks == 3
MaxJoints == 2
MaxChainAdds == 1
MaxStateLen == 2

\* ---------------------------------------------------------------------------
\* Option, Vec and Result helpers
\* ---------------------------------------------------------------------------
None == {}
Some(x) == {x}
IsSome(o) == o # {}
IsNone(o) == o = {}
Unwrap(o) == CHOOSE x \in o : TRUE

At(v, i) == v[i + 1]
Contains(v, x) == \E k \in 1..Len(v) : v[k] = x
Idxs(v) == 0..(Len(v) - 1)
Insert0(v, x) == <<x>> \o v

Ok(x) == [kind |-> "Ok", val |-> x]
ErrIdx == [kind |-> "Err", val |-> "IdxOutOfBound"]
ErrGeneric == [kind |-> "Err", val |-> "Generic"]
ErrWrongSize == [kind |-> "Err", val |-> "RobotStateVecWrongSize"]
Panic == [kind |-> "Panic", val |-> "panic"]
NoRet == [kind |-> "None", val |-> "none"]

\* ---------------------------------------------------------------------------
\* Raw description records (what the URDF supplies)
\* ---------------------------------------------------------------------------
LinkName(i) == <<"link", i>>
JointName(j) == <<"joint", j>>
GhostName == <<"ghost", 0>>
BaseLinkName(c) == <<"base_of_chain_link_with_child_link", c>>
BaseJointName(c) == <<"base_of_chain_connector_joint_with_child_link", c>>

RawJoints(n) == [parent : {LinkName(i) : i \in 0..(n - 1)} \cup {GhostName},
                 child : {LinkName(i) : i \in 0..(n - 1)} \cup {GhostName},
                 axes : 0..1]

RECURSIVE SeqsUpTo(_, _)
SeqsUpTo(S, n) ==
    IF n = 0 THEN {<<>>}
    ELSE LET shorter == SeqsUpTo(S, n - 1)
         IN shorter \cup {Append(s, x) : s \in {t \in shorter : Len(t) = n - 1}, x \in S}

\* The raw joints form a single tree over the n raw links: every joint names
\* existing links, every link but one is the child of exactly one joint, and
\* every link reaches the root by parent references.
RECURSIVE RawReach(_, _, _)
RawReach(rj, S, fuel) ==
    IF fuel = 0 THEN S
    ELSE RawReach(rj, S \cup {rj[k].child : k \in {k \in 1..Len(rj) : rj[k].parent \in S}}, fuel - 1)

IsRawTree(n, rj) ==
    LET names == {LinkName(i) : i \in 0..(n - 1)}
        roots == {x \in names : \A k \in 1..Len(rj) : rj[k].child # x}
    IN /\ \A k \in 1..Len(rj) : rj[k].parent \in names /\ rj[k].child \in names
       /\ Len(rj) = n - 1
       /\ Cardinality(roots) = 1
       /\ \A x \in names : Cardinality({k \in 1..Len(rj) : rj[k].child = x}) <= 1
       /\ RawReach(rj, roots, n) = names

\* ---------------------------------------------------------------------------
\* Link and Joint records
\* ---------------------------------------------------------------------------
LinkNew(i) ==
    [name |-> LinkName(i), present |-> TRUE, preceding_link_idx |-> None,
     preceding_joint_idx |-> None, children_link_idxs |-> <<>>]

JointNew(rj, j) ==
    [name |-> JointName(j), parent_link |-> rj.parent, child_link |-> rj.child,
     present |-> TRUE, preceding_link_idx |-> None, child_link_idx |-> None,
     joint_axes |-> [k \in 1..rj.axes |-> None]]

\* Joint::num_dofs: the number of axes without a fixed value
JointNumDofs(joint) == Cardinality({k \in 1..Len(joint.joint_axes) : IsNone(joint.joint_axes[k])})

\* ---------------------------------------------------------------------------
\* State
\* ---------------------------------------------------------------------------
VARIABLES
    phase,                          \* "raw", "built", "diverged", "panicked"
    raw_num_links,                  \* number of raw link records
    raw_joints,                     \* raw joint records
    links,
    joints,
    world_link_idx,
    robot_base_link_idx,
    link_tree_traversal_layers,
    link_tree_max_depth,
    preceding_actuated_joint_idxs,
    link_chains,
    link_name_to_idx_hashmap,
    joint_name_to_idx_hashmap,
    chain_adds,                     \* number of mobility-base insertions so far
    robot_state_module,             \* Option<RobotStateModule> built from the model
    op,                             \* the last operation called and its arguments
    ret,                            \* what it returned
    conversions,                    \* number of convert calls the last pose operation made
    env,                            \* what the clock, the shape source and the query engine give
    pp,                             \* position inside RobotGeometricShapeModule::new
    robot_shape_collections,
    current_asset,                  \* Option: the saved ShapeGeometryModule asset
    permanent_asset,                \* Option: the saved ShapeGeometryModulePermanent asset
    preprocessed,                   \* the collections when the preprocessing ended
    configurations                  \* the configuration of the module and of each saved asset

model == <<links, joints, world_link_idx, robot_base_link_idx,
           link_tree_traversal_layers, link_tree_max_depth,
           preceding_actuated_joint_idxs, link_chains,
           link_name_to_idx_hashmap, joint_name_to_idx_hashmap>>

\* state outside the kinematic graph and the state module
shape == <<env, pp, robot_shape_collections, current_asset, permanent_asset, preprocessed, configurations>>
geometry == <<conversions, shape>>

vars == <<phase, raw_num_links, raw_joints, model, chain_adds, robot_state_module, op, ret, geometry>>

\* ---------------------------------------------------------------------------
\* Name lookups
\* ---------------------------------------------------------------------------
HashGet(h, name) == IF name \in DOMAIN h THEN Some(h[name]) ELSE None
HashInsert(h, name, idx) == [x \in (DOMAIN h) \cup {name} |-> IF x = name THEN idx ELSE h[x]]

get_link_idx_from_name(lmap, name) == HashGet(lmap, name)
get_joint_idx_from_name(jmap, name) == HashGet(jmap, name)

\* ---------------------------------------------------------------------------
\* Construction steps
\* ---------------------------------------------------------------------------
\* body of the inner loop of assign_all_link_connections_manual for one (i, j)
LinkConnectionStep(link, joint, lmap, jmap) ==
    LET l1 == IF link.name = joint.child_link
              THEN [link EXCEPT !.preceding_link_idx = get_link_idx_from_name(lmap, joint.parent_link),
                                !.preceding_joint_idx = get_joint_idx_from_name(jmap, joint.name)]
              ELSE link
        c == get_link_idx_from_name(lmap, joint.child_link)
    IN IF link.name = joint.parent_link /\ IsSome(c)
       THEN [l1 EXCEPT !.children_link_idxs = Append(@, Unwrap(c))]
       ELSE l1

RECURSIVE LinkConnectionLoop(_, _, _, _, _)
LinkConnectionLoop(link, js, j, lmap, jmap) ==
    IF j > Len(js) THEN link
    ELSE LinkConnectionLoop(LinkConnectionStep(link, js[j], lmap, jmap), js, j + 1, lmap, jmap)

assign_all_link_connections_manual(ls, js, lmap, jmap) ==
    [i \in 1..Len(ls) |-> LinkConnectionLoop(ls[i], js, 1, lmap, jmap)]

assign_all_joint_connections_manual(js, lmap) ==
    [i \in 1..Len(js) |->
        [js[i] EXCEPT !.preceding_link_idx = get_link_idx_from_name(lmap, js[i].parent_link),
                      !.child_link_idx = get_link_idx_from_name(lmap, js[i].child_link)]]

\* first link without a preceding link; the previous value when there is none
set_world_link_idx_manual(ls, old) ==
    LET roots == {i \in Idxs(ls) : IsNone(At(ls, i).preceding_link_idx)}
    IN IF roots = {} THEN old ELSE CHOOSE i \in roots : \A k \in roots : i <= k

\* variant of LayerPass whose for loop stops one link early
RECURSIVE LayerPassSkipsLastLink(_, _, _, _)
LayerPassSkipsLastLink(ls, prev, i, acc) ==
    IF i + 1 >= Len(ls) THEN acc
    ELSE LET l == At(ls, i)
         IN IF IsSome(l.preceding_link_idx) /\ l.present /\ Contains(prev, Unwrap(l.preceding_link_idx))
            THEN LayerPassSkipsLastLink(ls, prev, i + 1, Append(acc, i))
            ELSE LayerPassSkipsLastLink(ls, prev, i + 1, acc)

\* variant of LayerPass that does not look at the present flag
RECURSIVE LayerPassIgnoresPresent(_, _, _, _)
LayerPassIgnoresPresent(ls, prev, i, acc) ==
    IF i >= Len(ls) THEN acc
    ELSE LET l == At(ls, i)
         IN IF IsSome(l.preceding_link_idx) /\ Contains(prev, Unwrap(l.preceding_link_idx))
            THEN LayerPassIgnoresPresent(ls, prev, i + 1, Append(acc, i))
            ELSE LayerPassIgnoresPresent(ls, prev, i + 1, acc)

\* one pass of the for loop of set_link_tree_traversal_info: the links pushed
\* into layer curr_layer, in index order
RECURSIVE LayerPass(_, _, _, _)
LayerPass(ls, prev, i, acc) ==
    IF i >= Len(ls) THEN acc
    ELSE LET l == At(ls, i)
         IN IF IsSome(l.preceding_link_idx) /\ l.present /\ Contains(prev, Unwrap(l.preceding_link_idx))
            THEN LayerPass(ls, prev, i + 1, Append(acc, i))
            ELSE LayerPass(ls, prev, i + 1, acc)

\* The outer loop.  A layer beyond index Len(ls) can be non-empty only when the
\* preceding-link pointers of present links form a cycle reachable from the
\* world link, and then every later layer is non-empty too: the loop never
\* ends.  The result is [diverged, layers].
RECURSIVE LayerLoop(_, _, _)
LayerLoop(ls, layers, curr_layer) ==
    LET pushed == LayerPass(ls, layers[curr_layer], 0, <<>>)
    IN IF pushed = <<>> THEN [diverged |-> FALSE, layers |-> layers]
       ELSE IF curr_layer > Len(ls) THEN [diverged |-> TRUE, layers |-> layers]
       ELSE LayerLoop(ls, Append(layers, pushed), curr_layer + 1)

set_link_tree_traversal_info(ls, world) ==
    LET r == LayerLoop(ls, <<(<<world>>)>>, 1)
    IN [diverged |-> r.diverged, layers |-> r.layers, max_depth |-> Len(r.layers)]

\* assign_link_chain: the walk from to_idx upwards.  More than Len(ls) steps
\* without reaching from_idx or a link without a preceding link means the walk
\* is inside a cycle that does not contain from_idx: the loop never ends.
\* The result is [diverged, chain]; chain is <<>> when nothing is assigned.
\* variant of LinkChainLoop that stores the path without its first link
RECURSIVE LinkChainLoopDropsSource(_, _, _, _)
LinkChainLoopDropsSource(ls, from_idx, out_vec, steps) ==
    LET preceding_link_idx_option == At(ls, out_vec[1]).preceding_link_idx
    IN IF IsNone(preceding_link_idx_option) THEN [diverged |-> FALSE, chain |-> <<>>]
       ELSE LET out2 == Insert0(out_vec, Unwrap(preceding_link_idx_option))
            IN IF Unwrap(preceding_link_idx_option) = from_idx
               THEN [diverged |-> FALSE, chain |-> out_vec]
               ELSE IF steps >= Len(ls) THEN [diverged |-> TRUE, chain |-> <<>>]
               ELSE LinkChainLoopDropsSource(ls, from_idx, out2, steps + 1)

RECURSIVE LinkChainLoop(_, _, _, _)
LinkChainLoop(ls, from_idx, out_vec, steps) ==
    LET preceding_link_idx_option == At(ls, out_vec[1]).preceding_link_idx
    IN IF IsNone(preceding_link_idx_option) THEN [diverged |-> FALSE, chain |-> <<>>]
       ELSE LET out2 == Insert0(out_vec, Unwrap(preceding_link_idx_option))
            IN IF Unwrap(preceding_link_idx_option) = from_idx
               THEN [diverged |-> FALSE, chain |-> out2]
               ELSE IF steps >= Len(ls) THEN [diverged |-> TRUE, chain |-> <<>>]
               ELSE LinkChainLoop(ls, from_idx, out2, steps + 1)

assign_link_chain(ls, from_idx, to_idx) == LinkChainLoop(ls, from_idx, <<to_idx>>, 0)

assign_all_link_chains(ls) ==
    LET cell == [i \in Idxs(ls), j \in Idxs(ls) |-> assign_link_chain(ls, i, j)]
    IN [diverged |-> \E i \in Idxs(ls), j \in Idxs(ls) : cell[i, j].diverged,
        chains |-> [i \in Idxs(ls), j \in Idxs(ls) |-> cell[i, j].chain]]

\* ---------------------------------------------------------------------------
\* RobotModelModule::new
\* ---------------------------------------------------------------------------
New ==
    /\ phase = "raw"
    /\ LET lmap == [x \in {LinkName(i) : i \in 0..(raw_num_links - 1)} |-> x[2]]
           jmap == [x \in {JointName(j) : j \in 0..(Len(raw_joints) - 1)} |-> x[2]]
           ls0 == [i \in 1..raw_num_links |-> LinkNew(i - 1)]
           js0 == [j \in 1..Len(raw_joints) |-> JointNew(raw_joints[j], j - 1)]
           ls1 == assign_all_link_connections_manual(ls0, js0, lmap, jmap)
           js1 == assign_all_joint_connections_manual(js0, lmap)
           world == set_world_link_idx_manual(ls1, 0)
           trav == set_link_tree_traversal_info(ls1, world)
           chains == assign_all_link_chains(ls1)
       IN /\ links' = ls1
          /\ joints' = js1
          /\ link_name_to_idx_hashmap' = lmap
          /\ joint_name_to_idx_hashmap' = jmap
          /\ world_link_idx' = world
          /\ robot_base_link_idx' = world
          /\ link_tree_traversal_layers' = trav.layers
          /\ link_tree_max_depth' = IF trav.diverged THEN 0 ELSE trav.max_depth
          /\ preceding_actuated_joint_idxs' = <<>>
          /\ link_chains' = IF trav.diverged THEN [i \in {}, j \in {} |-> <<>>] ELSE chains.chains
          /\ phase' = IF trav.diverged \/ chains.diverged THEN "diverged" ELSE "built"
          /\ op' = [name |-> "new", a |-> 0, b |-> 0]
          /\ ret' = IF trav.diverged \/ chains.diverged THEN NoRet ELSE Ok(0)
    /\ UNCHANGED <<geometry, raw_num_links, raw_joints, chain_adds, robot_state_module>>

\* ---------------------------------------------------------------------------
\* Operations on a built model
\* ---------------------------------------------------------------------------
Built == phase = "built"
LinkArgs == 0..Len(links)
JointArgs == 0..Len(joints)
Modes == {"Static", "Floating", "PlanarTranslation"}
FixedValueArgs == {None, Some(7)}

Returns(name, a, b, r) ==
    /\ op' = [name |-> name, a |-> a, b |-> b]
    /\ ret' = r
    /\ phase' = IF r = Panic THEN "panicked" ELSE phase
    /\ UNCHANGED <<geometry, raw_num_links, raw_joints, robot_state_module>>

get_link_by_idx(ls, idx) == IF idx >= Len(ls) THEN ErrIdx ELSE Ok(At(ls, idx))
get_joint_by_idx(js, idx) == IF idx >= Len(js) THEN ErrIdx ELSE Ok(At(js, idx))

GetLinkByIdx ==
    /\ Built
    /\ \E idx \in LinkArgs : Returns("get_link_by_idx", idx, 0, get_link_by_idx(links, idx))
    /\ UNCHANGED <<model, chain_adds>>

GetJointByIdx ==
    /\ Built
    /\ \E idx \in JointArgs : Returns("get_joint_by_idx", idx, 0, get_joint_by_idx(joints, idx))
    /\ UNCHANGED <<model, chain_adds>>

get_link_tree_traversal_layer(layers, link_idx) ==
    LET hits == {i \in Idxs(layers) : Contains(At(layers, i), link_idx)}
    IN IF hits = {} THEN ErrGeneric ELSE Ok(CHOOSE i \in hits : \A k \in hits : i <= k)

\* the for loop of get_link_with_highest_tree_traversal_layer from position k
RECURSIVE HighestLayerLoop(_, _, _, _, _)
HighestLayerLoop(layers, link_idxs, k, highest_layer, highest_layer_link_idx) ==
    IF k > Len(link_idxs) THEN Ok(highest_layer_link_idx)
    ELSE LET layer == get_link_tree_traversal_layer(layers, link_idxs[k])
         IN IF layer.kind = "Err" THEN layer
            ELSE IF layer.val >= highest_layer
                 THEN HighestLayerLoop(layers, link_idxs, k + 1, layer.val, link_idxs[k])
                 ELSE HighestLayerLoop(layers, link_idxs, k + 1, highest_layer, highest_layer_link_idx)

get_link_with_highest_tree_traversal_layer(layers, link_idxs) ==
    IF Len(link_idxs) = 1 THEN Ok(link_idxs[1])
    ELSE IF Len(link_idxs) = 0 THEN ErrGeneric
    ELSE HighestLayerLoop(layers, link_idxs, 1, 0, 0)

GetLinkWithHighestTreeTraversalLayer ==
    /\ Built
    /\ \E link_idxs \in SeqsUpTo(LinkArgs, 2) :
          Returns("get_link_with_highest_tree_traversal_layer", link_idxs, 0,
                  get_link_with_highest_tree_traversal_layer(link_tree_traversal_layers, link_idxs))
    /\ UNCHANGED <<model, chain_adds>>

\* get_all_downstream_links: the loop over the stack.  The loop ends exactly
\* when no link reachable through children lists lies on a cycle of children
\* lists; every stack entry carries the length of its walk from link_idx, and
\* a walk longer than the number of links has met such a cycle.
RECURSIVE DownstreamLoop(_, _, _)
DownstreamLoop(ls, stack, out_vec) ==
    IF stack = <<>> THEN [diverged |-> FALSE, out |-> out_vec]
    ELSE LET p == stack[1].idx
             d == stack[1].depth
             kids == At(ls, p).children_link_idxs
         IN IF d > Len(ls) THEN [diverged |-> TRUE, out |-> out_vec]
            ELSE DownstreamLoop(ls,
                                Tail(stack) \o [k \in 1..Len(kids) |-> [idx |-> kids[k], depth |-> d + 1]],
                                Append(out_vec, p))

get_all_downstream_links(ls, link_idx) ==
    IF link_idx >= Len(ls) THEN [diverged |-> FALSE, res |-> ErrIdx]
    ELSE LET kids == At(ls, link_idx).children_link_idxs
             r == DownstreamLoop(ls, [k \in 1..Len(kids) |-> [idx |-> kids[k], depth |-> 1]],
                                 <<link_idx>>)
         IN [diverged |-> r.diverged, res |-> Ok(r.out)]

GetAllDownstreamLinks ==
    /\ Built
    /\ \E link_idx \in LinkArgs :
          LET r == get_all_downstream_links(links, link_idx)
          IN IF r.diverged
             THEN /\ phase' = "diverged"
                  /\ op' = [name |-> "get_all_downstream_links", a |-> link_idx, b |-> 0]
                  /\ ret' = NoRet
                  /\ UNCHANGED <<geometry, raw_num_links, raw_joints, robot_state_module>>
             ELSE Returns("get_all_downstream_links", link_idx, 0, r.res)
    /\ UNCHANGED <<model, chain_adds>>

\* get_preceding_actuated_joint_idx: Ok(option) or Panic
get_preceding_actuated_joint_idx(ls, js, link_idx) ==
    IF link_idx >= Len(ls) THEN Panic
    ELSE LET joint_idx == At(ls, link_idx).preceding_joint_idx
         IN IF IsNone(joint_idx) THEN Ok(None)
            ELSE IF JointNumDofs(At(js, Unwrap(joint_idx))) > 0 THEN Ok(joint_idx)
            ELSE IF IsSome(At(js, Unwrap(joint_idx)).preceding_link_idx) THEN Ok(None)
            ELSE Panic

GetPrecedingActuatedJointIdx ==
    /\ Built
    /\ \E link_idx \in LinkArgs :
          Returns("get_preceding_actuated_joint_idx", link_idx, 0,
                  get_preceding_actuated_joint_idx(links, joints, link_idx))
    /\ UNCHANGED <<model, chain_adds>>

set_preceding_actuated_joint_idxs(ls, js) ==
    [i \in 1..Len(ls) |-> get_preceding_actuated_joint_idx(ls, js, i - 1)]

SetPrecedingActuatedJointIdxs ==
    /\ Built
    /\ LET res == set_preceding_actuated_joint_idxs(links, joints)
           panics == {i \in 1..Len(res) : res[i] = Panic}
       IN IF panics = {}
          THEN /\ preceding_actuated_joint_idxs' = [i \in 1..Len(res) |-> res[i].val]
               /\ Returns("set_preceding_actuated_joint_idxs", 0, 0, Ok(0))
          ELSE /\ preceding_actuated_joint_idxs' =
                      [i \in 1..((CHOOSE i \in panics : \A k \in panics : i <= k) - 1) |-> res[i].val]
               /\ Returns("set_preceding_actuated_joint_idxs", 0, 0, Panic)
    /\ UNCHANGED <<links, joints, world_link_idx, robot_base_link_idx, link_tree_traversal_layers,
                   link_tree_max_depth, link_chains, link_name_to_idx_hashmap,
                   joint_name_to_idx_hashmap, chain_adds>>

get_all_link_idxs_with_given_preceding_actuated_joint_idx(pa, joint_idx) ==
    SelectSeq([i \in 1..Len(pa) |-> i - 1], LAMBDA i : IsSome(At(pa, i)) /\ Unwrap(At(pa, i)) = joint_idx)

GetAllLinkIdxsWithGivenPrecedingActuatedJointIdx ==
    /\ Built
    /\ \E joint_idx \in JointArgs :
          Returns("get_all_link_idxs_with_given_preceding_actuated_joint_idx", joint_idx, 0,
                  Ok(get_all_link_idxs_with_given_preceding_actuated_joint_idx(
                        preceding_actuated_joint_idxs, joint_idx)))
    /\ UNCHANGED <<model, chain_adds>>

get_link_chain(ls, chains, from_link_idx, to_link_idx) ==
    IF from_link_idx >= Len(ls) \/ to_link_idx >= Len(ls) THEN ErrIdx
    ELSE LET res == chains[from_link_idx, to_link_idx]
         IN IF res = <<>> THEN Ok(None) ELSE Ok(Some(res))

GetLinkChain ==
    /\ Built
    /\ \E from_link_idx \in LinkArgs, to_link_idx \in LinkArgs :
          Returns("get_link_chain", from_link_idx, to_link_idx,
                  get_link_chain(links, link_chains, from_link_idx, to_link_idx))
    /\ UNCHANGED <<model, chain_adds>>

\* ---------------------------------------------------------------------------
\* Presence and fixed-value mutators
\* ---------------------------------------------------------------------------
\* variant of JointsGovernedBy that selects the joints above the link
JointsGovernedByChild(js, link_idx) ==
    {i \in 1..Len(js) : IsSome(js[i].child_link_idx) /\ Unwrap(js[i].child_link_idx) = link_idx}

\* the joints whose preceding link is link_idx (loops of set_link_as_*present)
JointsGovernedBy(js, link_idx) ==
    {i \in 1..Len(js) : IsSome(js[i].preceding_link_idx) /\ Unwrap(js[i].preceding_link_idx) = link_idx}

set_joint_present(js, joint_idx, flag) == [js EXCEPT ![joint_idx + 1].present = flag]

SetLinkAsNotPresent ==
    /\ Built
    /\ \E link_idx \in LinkArgs :
          IF link_idx >= Len(links)
          THEN /\ Returns("set_link_as_not_present", link_idx, 0, ErrIdx)
               /\ UNCHANGED <<links, joints>>
          ELSE IF world_link_idx = link_idx
          THEN /\ Returns("set_link_as_not_present", link_idx, 0, Ok(0))
               /\ UNCHANGED <<links, joints>>
          ELSE /\ links' = [links EXCEPT ![link_idx + 1].present = FALSE]
               /\ joints' = [i \in 1..Len(joints) |->
                               IF i \in JointsGovernedBy(joints, link_idx)
                               THEN [joints[i] EXCEPT !.present = FALSE] ELSE joints[i]]
               /\ Returns("set_link_as_not_present", link_idx, 0, Ok(0))
    /\ UNCHANGED <<world_link_idx, robot_base_link_idx, link_tree_traversal_layers,
                   link_tree_max_depth, preceding_actuated_joint_idxs, link_chains,
                   link_name_to_idx_hashmap, joint_name_to_idx_hashmap, chain_adds>>

SetLinkAsPresent ==
    /\ Built
    /\ \E link_idx \in LinkArgs :
          IF link_idx >= Len(links)
          THEN /\ Returns("set_link_as_present", link_idx, 0, ErrIdx)
               /\ UNCHANGED <<links, joints>>
          ELSE /\ links' = [links EXCEPT ![link_idx + 1].present = TRUE]
               /\ joints' = [i \in 1..Len(joints) |->
                               IF i \in JointsGovernedBy(joints, link_idx)
                               THEN [joints[i] EXCEPT !.present = TRUE] ELSE joints[i]]
               /\ Returns("set_link_as_present", link_idx, 0, Ok(0))
    /\ UNCHANGED <<world_link_idx, robot_base_link_idx, link_tree_traversal_layers,
                   link_tree_max_depth, preceding_actuated_joint_idxs, link_chains,
                   link_name_to_idx_hashmap, joint_name_to_idx_hashmap, chain_adds>>

SetJointAsNotPresent ==
    /\ Built
    /\ \E joint_idx \in JointArgs :
          IF joint_idx >= Len(joints)
          THEN /\ Returns("set_joint_as_not_present", joint_idx, 0, ErrIdx)
               /\ UNCHANGED joints
          ELSE /\ joints' = set_joint_present(joints, joint_idx, FALSE)
               /\ Returns("set_joint_as_not_present", joint_idx, 0, Ok(0))
    /\ UNCHANGED <<links, world_link_idx, robot_base_link_idx, link_tree_traversal_layers,
                   link_tree_max_depth, preceding_actuated_joint_idxs, link_chains,
                   link_name_to_idx_hashmap, joint_name_to_idx_hashmap, chain_adds>>

SetJointAsPresent ==
    /\ Built
    /\ \E joint_idx \in JointArgs :
          IF joint_idx >= Len(joints)
          THEN /\ Returns("set_joint_as_present", joint_idx, 0, ErrIdx)
               /\ UNCHANGED joints
          ELSE /\ joints' = set_joint_present(joints, joint_idx, TRUE)
               /\ Returns("set_joint_as_present", joint_idx, 0, Ok(0))
    /\ UNCHANGED <<links, world_link_idx, robot_base_link_idx, link_tree_traversal_layers,
                   link_tree_max_depth, preceding_actuated_joint_idxs, link_chains,
                   link_name_to_idx_hashmap, joint_name_to_idx_hashmap, chain_adds>>

\* Joint::set_fixed_joint_sub_dof: [res, joint]
JointSetFixedSubDof(joint, joint_sub_idx, fixed_value) ==
    IF joint_sub_idx >= Len(joint.joint_axes) THEN [res |-> ErrIdx, joint |-> joint]
    ELSE [res |-> Ok(0), joint |-> [joint EXCEPT !.joint_axes[joint_sub_idx + 1] = fixed_value]]

SetFixedJointSubDof ==
    /\ Built
    /\ \E joint_idx \in JointArgs, joint_sub_idx \in 0..1, fixed_value \in FixedValueArgs :
          IF joint_idx >= Len(joints)
          THEN /\ Returns("set_fixed_joint_sub_dof", joint_idx, joint_sub_idx, ErrIdx)
               /\ UNCHANGED joints
          ELSE LET r == JointSetFixedSubDof(At(joints, joint_idx), joint_sub_idx, fixed_value)
               IN /\ joints' = [joints EXCEPT ![joint_idx + 1] = r.joint]
                  /\ Returns("set_fixed_joint_sub_dof", joint_idx, joint_sub_idx, r.res)
    /\ UNCHANGED <<links, world_link_idx, robot_base_link_idx, link_tree_traversal_layers,
                   link_tree_max_depth, preceding_actuated_joint_idxs, link_chains,
                   link_name_to_idx_hashmap, joint_name_to_idx_hashmap, chain_adds>>

\* the for loop of set_fixed_joint: d runs over 0..num_dofs, the range being
\* computed once before the first iteration
RECURSIVE FixedJointLoop(_, _, _, _)
FixedJointLoop(joint, d, num_dofs, fixed_value) ==
    IF d >= num_dofs THEN [res |-> Ok(0), joint |-> joint]
    ELSE LET r == JointSetFixedSubDof(joint, d, fixed_value)
         IN IF r.res.kind = "Err" THEN r
            ELSE FixedJointLoop(r.joint, d + 1, num_dofs, fixed_value)

SetFixedJoint ==
    /\ Built
    /\ \E joint_idx \in JointArgs, fixed_value \in FixedValueArgs :
          IF joint_idx >= Len(joints)
          THEN /\ Returns("set_fixed_joint", joint_idx, 0, ErrIdx)
               /\ UNCHANGED joints
          ELSE LET j == At(joints, joint_idx)
                   r == FixedJointLoop(j, 0, JointNumDofs(j), fixed_value)
               IN /\ joints' = [joints EXCEPT ![joint_idx + 1] = r.joint]
                  /\ Returns("set_fixed_joint", joint_idx, 0, r.res)
    /\ UNCHANGED <<links, world_link_idx, robot_base_link_idx, link_tree_traversal_layers,
                   link_tree_max_depth, preceding_actuated_joint_idxs, link_chains,
                   link_name_to_idx_hashmap, joint_name_to_idx_hashmap, chain_adds>>

\* ---------------------------------------------------------------------------
\* Recomputation of the traversal layers, mobility-base insertion
\* ---------------------------------------------------------------------------
Diverges(name, a, b) ==
    /\ phase' = "diverged"
    /\ op' = [name |-> name, a |-> a, b |-> b]
    /\ ret' = NoRet
    /\ UNCHANGED <<geometry, raw_num_links, raw_joints, robot_state_module>>

SetLinkTreeTraversalInfo ==
    /\ Built
    /\ LET trav == set_link_tree_traversal_info(links, world_link_idx)
       IN /\ link_tree_traversal_layers' = trav.layers
          /\ IF trav.diverged
             THEN /\ Diverges("set_link_tree_traversal_info", 0, 0)
                  /\ UNCHANGED link_tree_max_depth
             ELSE /\ Returns("set_link_tree_traversal_info", 0, 0, Ok(0))
                  /\ link_tree_max_depth' = trav.max_depth
    /\ UNCHANGED <<links, joints, world_link_idx, robot_base_link_idx,
                   preceding_actuated_joint_idxs, link_chains,
                   link_name_to_idx_hashmap, joint_name_to_idx_hashmap, chain_adds>>

ModeAxes(mode) == IF mode = "Floating" THEN 6 ELSE IF mode = "PlanarTranslation" THEN 2 ELSE 0

new_base_of_chain_link(new_link_idx, child_link_idx, new_joint_idx, world) ==
    [name |-> BaseLinkName(child_link_idx), present |-> TRUE,
     preceding_link_idx |-> Some(world), preceding_joint_idx |-> None,
     children_link_idxs |-> <<child_link_idx>>]

new_base_of_chain_connector_joint(mode, new_joint_idx, new_link_idx, child_link_idx) ==
    [name |-> BaseJointName(child_link_idx), parent_link |-> BaseLinkName(child_link_idx),
     child_link |-> At(links, child_link_idx).name,
     present |-> TRUE, preceding_link_idx |-> Some(new_link_idx),
     child_link_idx |-> Some(child_link_idx),
     joint_axes |-> [k \in 1..ModeAxes(mode) |-> None]]

AddContiguousChainLinkAndJoint ==
    /\ Built
    /\ \E mode \in Modes, child_link_idx \in Idxs(links) :
          IF mode = "Static"
          THEN /\ Returns("add_contiguous_chain_link_and_joint", mode, child_link_idx, Ok(0))
               /\ UNCHANGED <<model, chain_adds>>
          ELSE /\ chain_adds < MaxChainAdds
               /\ LET new_link_idx == Len(links)
                      new_joint_idx == Len(joints)
                      new_link == new_base_of_chain_link(new_link_idx, child_link_idx,
                                                         new_joint_idx, world_link_idx)
                      new_joint == new_base_of_chain_connector_joint(mode, new_joint_idx,
                                                                     new_link_idx, child_link_idx)
                      ls1 == [Append(links, new_link) EXCEPT
                                 ![child_link_idx + 1].preceding_link_idx = Some(new_link_idx)]
                      trav == set_link_tree_traversal_info(ls1, world_link_idx)
                      chains == assign_all_link_chains(ls1)
                  IN /\ link_name_to_idx_hashmap' =
                            HashInsert(link_name_to_idx_hashmap, new_link.name, new_link_idx)
                     /\ joint_name_to_idx_hashmap' =
                            HashInsert(joint_name_to_idx_hashmap, new_joint.name, new_joint_idx)
                     /\ links' = ls1
                     /\ joints' = Append(joints, new_joint)
                     /\ robot_base_link_idx' = IF child_link_idx = world_link_idx
                                               THEN new_link_idx ELSE robot_base_link_idx
                     /\ link_tree_traversal_layers' = trav.layers
                     /\ link_tree_max_depth' = IF trav.diverged THEN link_tree_max_depth
                                               ELSE trav.max_depth
                     /\ link_chains' = IF trav.diverged THEN link_chains ELSE chains.chains
                     /\ IF trav.diverged \/ chains.diverged
                        THEN Diverges("add_contiguous_chain_link_and_joint", mode, child_link_idx)
                        ELSE Returns("add_contiguous_chain_link_and_joint", mode, child_link_idx, Ok(0))
                     /\ chain_adds' = chain_adds + 1
                     /\ UNCHANGED <<world_link_idx, preceding_actuated_joint_idxs>>

\* ---------------------------------------------------------------------------
\* RobotStateModule and RobotState
\* ---------------------------------------------------------------------------
StateValues == {1, 2}
RobotStateTypes == {"DOF", "Full"}
RobotStates == [state : SeqsUpTo(StateValues, MaxStateLen), robot_state_type : RobotStateTypes]

JointAxis(joint_idx, fixed_value) == [joint_idx |-> joint_idx, fixed_value |-> fixed_value]
AxisIsFixed(a) == IsSome(a.fixed_value)

\* Joint::active
JointActive(joint) == joint.present

\* set_ordered_joint_axes: the axes of the active joints from joint j on
RECURSIVE OrderedJointAxesFrom(_, _)
OrderedJointAxesFrom(js, j) ==
    IF j > Len(js) THEN <<>>
    ELSE (IF JointActive(js[j])
          THEN [k \in 1..Len(js[j].joint_axes) |-> JointAxis(j - 1, js[j].joint_axes[k])]
          ELSE <<>>) \o OrderedJointAxesFrom(js, j + 1)

\* initialize_joint_idx_to_*_state_idxs: per joint, the state slots of its axes
JointIdxToStateIdxs(js, axes) ==
    [j \in 1..Len(js) |->
        SelectSeq([i \in 1..Len(axes) |-> i - 1], LAMBDA i : At(axes, i).joint_idx = j - 1)]

RobotStateModule_new(js) ==
    LET ordered_joint_axes == OrderedJointAxesFrom(js, 1)
        ordered_dof_joint_axes == SelectSeq(ordered_joint_axes, LAMBDA a : ~AxisIsFixed(a))
    IN [num_dofs |-> Len(ordered_dof_joint_axes),
        num_axes |-> Len(ordered_joint_axes),
        ordered_dof_joint_axes |-> ordered_dof_joint_axes,
        ordered_joint_axes |-> ordered_joint_axes,
        joint_idx_to_dof_state_idxs_mapping |-> JointIdxToStateIdxs(js, ordered_dof_joint_axes),
        joint_idx_to_full_state_idxs_mapping |-> JointIdxToStateIdxs(js, ordered_joint_axes)]

StateReturns(name, a, r) ==
    /\ op' = [name |-> name, a |-> a, b |-> 0]
    /\ ret' = r
    /\ UNCHANGED <<geometry, phase, raw_num_links, raw_joints, model, chain_adds>>

RobotStateModuleNew ==
    /\ Built
    /\ robot_state_module' = Some(RobotStateModule_new(joints))
    /\ StateReturns("robot_state_module_new", 0, Ok(0))

\* RobotState::new
RobotState_new(state, robot_state_type, sm) ==
    IF robot_state_type = "DOF" /\ sm.num_dofs # Len(state) THEN ErrWrongSize
    ELSE IF robot_state_type = "Full" /\ sm.num_axes # Len(state) THEN ErrWrongSize
    ELSE Ok([state |-> state, robot_state_type |-> robot_state_type])

\* the for loop of convert_state_to_full_state from axis i on
RECURSIVE FullStateLoop(_, _, _, _, _)
FullStateLoop(axes, state, i, bookmark, out) ==
    IF i >= Len(axes) THEN out
    ELSE IF AxisIsFixed(At(axes, i))
         THEN FullStateLoop(axes, state, i + 1, bookmark, [out EXCEPT ![i + 1] = Unwrap(At(axes, i).fixed_value)])
         ELSE FullStateLoop(axes, state, i + 1, bookmark + 1, [out EXCEPT ![i + 1] = At(state, bookmark)])

convert_state_to_full_state(sm, state) ==
    IF Len(state.state) # sm.num_dofs THEN ErrWrongSize
    ELSE IF state.robot_state_type = "DOF" THEN Ok(state)
    ELSE RobotState_new(FullStateLoop(sm.ordered_joint_axes, state.state, 0, 0,
                                      [k \in 1..sm.num_axes |-> 0]),
                        "Full", sm)

ConvertStateToFullState ==
    /\ IsSome(robot_state_module)
    /\ \E state \in RobotStates :
          StateReturns("convert_state_to_full_state", state,
                       convert_state_to_full_state(Unwrap(robot_state_module), state))
    /\ UNCHANGED robot_state_module

\* the for loop of convert_state_to_dof_state from axis i on
RECURSIVE DofStateLoop(_, _, _, _, _)
DofStateLoop(axes, state, i, bookmark, out) ==
    IF i >= Len(axes) THEN out
    ELSE IF ~AxisIsFixed(At(axes, i))
         THEN DofStateLoop(axes, state, i + 1, bookmark + 1, [out EXCEPT ![bookmark + 1] = At(state, i)])
         ELSE DofStateLoop(axes, state, i + 1, bookmark, out)

convert_state_to_dof_state(sm, state) ==
    IF Len(state.state) # sm.num_axes THEN ErrWrongSize
    ELSE IF state.robot_state_type = "Full" THEN Ok(state)
    ELSE RobotState_new(DofStateLoop(sm.ordered_joint_axes, state.state, 0, 0,
                                     [k \in 1..sm.num_dofs |-> 0]),
                        "DOF", sm)

ConvertStateToDofState ==
    /\ IsSome(robot_state_module)
    /\ \E state \in RobotStates :
          StateReturns("convert_state_to_dof_state", state,
                       convert_state_to_dof_state(Unwrap(robot_state_module), state))
    /\ UNCHANGED robot_state_module

\* convert_state_to_full_state, then convert_state_to_dof_state on its result;
\* an error of the first call is the result
dof_state_round_trip(sm, state) ==
    LET full == convert_state_to_full_state(sm, state)
    IN IF full.kind = "Ok" THEN convert_state_to_dof_state(sm, full.val) ELSE full

DofStateRoundTrip ==
    /\ IsSome(robot_state_module)
    /\ \E state \in RobotStates :
          StateReturns("dof_state_round_trip", state,
                       dof_state_round_trip(Unwrap(robot_state_module), state))
    /\ UNCHANGED robot_state_module

\* RobotState::new_unchecked
RobotState_new_unchecked(state, robot_state_type) ==
    [state |-> state, robot_state_type |-> robot_state_type]

\* DVector + DVector: nalgebra asserts equal dimensions
DVectorAdd(x, y) ==
    IF Len(x) # Len(y) THEN Panic ELSE Ok([k \in 1..Len(x) |-> x[k] + y[k]])

\* impl Add for RobotState
RobotState_add(self, rhs) ==
    IF self.robot_state_type # rhs.robot_state_type THEN ErrGeneric
    ELSE LET sum == DVectorAdd(self.state, rhs.state)
         IN IF sum.kind = "Panic" THEN Panic
            ELSE Ok(RobotState_new_unchecked(sum.val, self.robot_state_type))

RobotStateAdd ==
    /\ phase # "panicked"
    /\ IsSome(robot_state_module)
    /\ \E self \in RobotStates, rhs \in RobotStates :
          LET r == RobotState_add(self, rhs)
          IN /\ op' = [name |-> "add", a |-> self, b |-> rhs]
             /\ ret' = r
             /\ phase' = IF r = Panic THEN "panicked" ELSE phase
    /\ UNCHANGED <<geometry, raw_num_links, raw_joints, model, chain_adds, robot_state_module>>

\* RobotState::new_try_auto_type
new_try_auto_type(state, sm) ==
    IF sm.num_axes = Len(state) THEN Ok(RobotState_new_unchecked(state, "Full"))
    ELSE IF sm.num_dofs = Len(state) THEN Ok(RobotState_new_unchecked(state, "DOF"))
    ELSE ErrGeneric

RobotStateNewTryAutoType ==
    /\ IsSome(robot_state_module)
    /\ \E state \in SeqsUpTo(StateValues, MaxStateLen) :
          StateReturns("new_try_auto_type", state, new_try_auto_type(state, Unwrap(robot_state_module)))
    /\ UNCHANGED robot_state_module

\* ---------------------------------------------------------------------------
\* Rotations and SE(3) poses.  The numbers are exact: the rotations are the
\* half turns about the coordinate axes (3x3 sign matrices, the quaternions
\* +-1, +-i, +-j, +-k) and the translations are integer vectors.
\* ---------------------------------------------------------------------------
RECURSIVE Dot(_, _, _)
Dot(a, b, k) == IF k = 0 THEN 0 ELSE a[k] * b[k] + Dot(a, b, k - 1)

MatCol(m, c) == [r \in 1..Len(m) |-> m[r][c]]
MatMul(a, b) == [r \in 1..Len(a) |-> [c \in 1..Len(a) |-> Dot(a[r], MatCol(b, c), Len(a))]]
MatVec(m, v) == [r \in 1..Len(m) |-> Dot(m[r], v, Len(v))]
MatTranspose(m) == [r \in 1..Len(m) |-> MatCol(m, r)]
VecAdd(u, v) == [k \in 1..Len(u) |-> u[k] + v[k]]
VecSub(u, v) == [k \in 1..Len(u) |-> u[k] - v[k]]

\* Rotation3 values and UnitQuaternion values <<w, i, j, k>>
Diag3(a, b, c) == <<<<a, 0, 0>>, <<0, b, 0>>, <<0, 0, c>>>>
Rotation3s == {Diag3(1, 1, 1), Diag3(1, -1, -1), Diag3(-1, 1, -1), Diag3(-1, -1, 1)}
UnitQuaternions ==
    {q \in [1..4 -> {-1, 0, 1}] : q[1] * q[1] + q[2] * q[2] + q[3] * q[3] + q[4] * q[4] = 1}
Translations == {<<0, 0, 0>>, <<1, 2, 3>>}

\* q * p (Hamilton product) and the inverse of a unit quaternion
QuatMul(q, p) ==
    <<q[1] * p[1] - q[2] * p[2] - q[3] * p[3] - q[4] * p[4],
      q[1] * p[2] + q[2] * p[1] + q[3] * p[4] - q[4] * p[3],
      q[1] * p[3] - q[2] * p[4] + q[3] * p[1] + q[4] * p[2],
      q[1] * p[4] + q[2] * p[3] - q[3] * p[2] + q[4] * p[1]>>
QuatInverse(q) == <<q[1], -q[2], -q[3], -q[4]>>

\* UnitQuaternion::to_rotation_matrix
QuatToRotationMatrix(q) ==
    LET w == q[1]
        i == q[2]
        j == q[3]
        k == q[4]
    IN <<<<1 - 2 * (j * j + k * k), 2 * (i * j - k * w), 2 * (i * k + j * w)>>,
         <<2 * (i * j + k * w), 1 - 2 * (i * i + k * k), 2 * (j * k - i * w)>>,
         <<2 * (i * k - j * w), 2 * (j * k + i * w), 1 - 2 * (i * i + j * j)>>>>

\* UnitQuaternion::from_rotation_matrix: the branch on the trace and on the
\* largest diagonal entry; the square root is 2 for a half turn and the identity
QuatFromRotationMatrix(m) ==
    LET tr == m[1][1] + m[2][2] + m[3][3]
    IN IF tr > 0
       THEN <<1, (m[3][2] - m[2][3]) \div 4, (m[1][3] - m[3][1]) \div 4, (m[2][1] - m[1][2]) \div 4>>
       ELSE IF m[1][1] > m[2][2] /\ m[1][1] > m[3][3]
       THEN <<(m[3][2] - m[2][3]) \div 4, 1, (m[1][2] + m[2][1]) \div 4, (m[1][3] + m[3][1]) \div 4>>
       ELSE IF m[2][2] > m[3][3]
       THEN <<(m[1][3] - m[3][1]) \div 4, (m[1][2] + m[2][1]) \div 4, 1, (m[2][3] + m[3][2]) \div 4>>
       ELSE <<(m[2][1] - m[1][2]) \div 4, (m[1][3] + m[3][1]) \div 4, (m[2][3] + m[3][2]) \div 4, 1>>

QuatRotate(q, v) == MatVec(QuatToRotationMatrix(q), v)

\* what an operation of the pose algebra gives: its result and the number of
\* convert calls it made
Counted(res, n) == [res |-> res, conversions |-> n]

OptimaRotationTypes == {"RotationMatrix", "UnitQuaternion"}
new_rotation_matrix(data) == [data |-> data, rotation_type |-> "RotationMatrix"]
new_unit_quaternion(data) == [data |-> data, rotation_type |-> "UnitQuaternion"]
OptimaRotations ==
    {new_rotation_matrix(m) : m \in Rotation3s} \cup {new_unit_quaternion(q) : q \in UnitQuaternions}
get_rotation_type(r) == r.rotation_type

\* OptimaRotation::convert
rotation_convert(self, target_type) ==
    IF self.rotation_type = "RotationMatrix"
    THEN IF target_type = "RotationMatrix" THEN self
         ELSE new_unit_quaternion(QuatFromRotationMatrix(self.data))
    ELSE IF target_type = "RotationMatrix" THEN new_rotation_matrix(QuatToRotationMatrix(self.data))
         ELSE self

\* OptimaRotation::inverse
rotation_inverse(self) ==
    IF self.rotation_type = "RotationMatrix"
    THEN new_rotation_matrix(MatTranspose(self.data))
    ELSE new_unit_quaternion(QuatInverse(self.data))

\* OptimaRotation::multiply_by_point
rotation_multiply_by_point(self, point) ==
    IF self.rotation_type = "RotationMatrix" THEN MatVec(self.data, point)
    ELSE QuatRotate(self.data, point)

\* OptimaRotation::multiply
RECURSIVE rotation_multiply(_, _, _)
rotation_multiply(self, other, conversion_if_necessary) ==
    IF get_rotation_type(self) # get_rotation_type(other)
    THEN IF conversion_if_necessary
         THEN LET new_operand == rotation_convert(other, get_rotation_type(self))
                  r == rotation_multiply(self, new_operand, conversion_if_necessary)
              IN Counted(r.res, r.conversions + 1)
         ELSE Counted(ErrGeneric, 0)
    ELSE IF self.rotation_type = "RotationMatrix"
    THEN Counted(Ok(new_rotation_matrix(MatMul(self.data, other.data))), 0)
    ELSE Counted(Ok(new_unit_quaternion(QuatMul(self.data, other.data))), 0)

\* OptimaRotation::displacement
RECURSIVE rotation_displacement(_, _, _)
rotation_displacement(self, other, conversion_if_necessary) ==
    IF get_rotation_type(self) # get_rotation_type(other)
    THEN IF conversion_if_necessary
         THEN LET new_operand == rotation_convert(other, get_rotation_type(self))
                  r == rotation_displacement(self, new_operand, conversion_if_necessary)
              IN Counted(r.res, r.conversions + 1)
         ELSE Counted(ErrGeneric, 0)
    ELSE IF self.rotation_type = "RotationMatrix"
    THEN Counted(Ok(new_rotation_matrix(MatMul(MatTranspose(self.data), other.data))), 0)
    ELSE Counted(Ok(new_unit_quaternion(QuatMul(QuatInverse(self.data), other.data))), 0)

\* data of the ImplicitDualQuaternion variant: a unit quaternion and a translation
IDQ_new(quaternion, translation) == [quaternion |-> quaternion, translation |-> translation]
\* data of the HomogeneousMatrix variant: the 4x4 matrix [R t; 0 1]
HM_new(m, t) ==
    [matrix |-> <<<<m[1][1], m[1][2], m[1][3], t[1]>>,
                  <<m[2][1], m[2][2], m[2][3], t[2]>>,
                  <<m[3][1], m[3][2], m[3][3], t[3]>>,
                  <<0, 0, 0, 1>>>>]
HM_rotation(h) == [r \in 1..3 |-> [c \in 1..3 |-> h.matrix[r][c]]]
HM_translation(h) == [r \in 1..3 |-> h.matrix[r][4]]
\* data of the RotationAndTranslation variant: an OptimaRotation and a translation
RT_new(rotation, translation) == [translation |-> translation, rotation |-> rotation]

OptimaSE3PoseTypes ==
    {"ImplicitDualQuaternion", "HomogeneousMatrix",
     "UnitQuaternionAndTranslation", "RotationMatrixAndTranslation"}

new_implicit_dual_quaternion(data) ==
    [data |-> data, variant |-> "ImplicitDualQuaternion", pose_type |-> "ImplicitDualQuaternion"]
new_homogeneous_matrix(data) ==
    [data |-> data, variant |-> "HomogeneousMatrix", pose_type |-> "HomogeneousMatrix"]
new_rotation_and_translation(data) ==
    [data |-> data, variant |-> "RotationAndTranslation",
     pose_type |-> IF data.rotation.rotation_type = "RotationMatrix"
                   THEN "RotationMatrixAndTranslation" ELSE "UnitQuaternionAndTranslation"]

OptimaSE3Poses ==
    {new_implicit_dual_quaternion(IDQ_new(q, t)) : q \in UnitQuaternions, t \in Translations}
    \cup {new_homogeneous_matrix(HM_new(m, t)) : m \in Rotation3s, t \in Translations}
    \cup {new_rotation_and_translation(RT_new(r, t)) : r \in OptimaRotations, t \in Translations}

\* the pose of a rotation and a translation in the representation target_type
PoseFrom(rotation, translation, target_type) ==
    IF target_type = "ImplicitDualQuaternion"
    THEN new_implicit_dual_quaternion(
             IDQ_new(rotation_convert(rotation, "UnitQuaternion").data, translation))
    ELSE IF target_type = "HomogeneousMatrix"
    THEN new_homogeneous_matrix(
             HM_new(rotation_convert(rotation, "RotationMatrix").data, translation))
    ELSE IF target_type = "UnitQuaternionAndTranslation"
    THEN new_rotation_and_translation(RT_new(rotation_convert(rotation, "UnitQuaternion"), translation))
    ELSE new_rotation_and_translation(RT_new(rotation_convert(rotation, "RotationMatrix"), translation))

IDQ_convert(data, target_type) ==
    PoseFrom(new_unit_quaternion(data.quaternion), data.translation, target_type)
HM_convert(data, target_type) ==
    PoseFrom(new_rotation_matrix(HM_rotation(data)), HM_translation(data), target_type)
RT_convert(data, target_type) == PoseFrom(data.rotation, data.translation, target_type)

\* a * b and the displacement d with a * d = b, per representation
IDQ_multiply_shortcircuit(a, b) ==
    IDQ_new(QuatMul(a.quaternion, b.quaternion),
            VecAdd(QuatRotate(a.quaternion, b.translation), a.translation))
IDQ_displacement(a, b) ==
    IDQ_new(QuatMul(QuatInverse(a.quaternion), b.quaternion),
            QuatRotate(QuatInverse(a.quaternion), VecSub(b.translation, a.translation)))
HM_multiply(a, b) == [matrix |-> MatMul(a.matrix, b.matrix)]
HM_inverse(a) ==
    HM_new(MatTranspose(HM_rotation(a)),
           VecSub(<<0, 0, 0>>, MatVec(MatTranspose(HM_rotation(a)), HM_translation(a))))
HM_displacement(a, b) == HM_multiply(HM_inverse(a), b)
RT_multiply(a, b, conversion_if_necessary) ==
    LET r == rotation_multiply(a.rotation, b.rotation, conversion_if_necessary)
    IN IF r.res.kind # "Ok" THEN r
       ELSE Counted(Ok(RT_new(r.res.val,
                              VecAdd(rotation_multiply_by_point(a.rotation, b.translation),
                                     a.translation))),
                    r.conversions)
RT_displacement(a, b, conversion_if_necessary) ==
    LET r == rotation_displacement(a.rotation, b.rotation, conversion_if_necessary)
    IN IF r.res.kind # "Ok" THEN r
       ELSE Counted(Ok(RT_new(r.res.val,
                              rotation_multiply_by_point(rotation_inverse(a.rotation),
                                                         VecSub(b.translation, a.translation)))),
                    r.conversions)

\* the distances are real numbers; a distance is kept as the measure that was
\* taken and the displacement it was taken of
IDQ_ln_l2_magnitude(d) == [measure |-> "ln_l2_magnitude", of |-> d]
HM_approximate_distance(a, b) == [measure |-> "approximate_distance", of |-> HM_displacement(a, b)]
RT_approximate_distance(a, b, conversion_if_necessary) ==
    LET r == RT_displacement(a, b, conversion_if_necessary)
    IN IF r.res.kind # "Ok" THEN r
       ELSE Counted(Ok([measure |-> "approximate_distance", of |-> r.res.val]), r.conversions)

get_pose_type(pose) == pose.pose_type
are_types_compatible(a, b) == get_pose_type(a) = get_pose_type(b)

\* OptimaSE3Pose::convert
pose_convert(self, target_type) ==
    IF self.variant = "ImplicitDualQuaternion" THEN IDQ_convert(self.data, target_type)
    ELSE IF self.variant = "HomogeneousMatrix" THEN HM_convert(self.data, target_type)
    ELSE RT_convert(self.data, target_type)

\* the match of OptimaSE3Pose::multiply on the variants of both operands
pose_multiply_match(self, other, conversion_if_necessary) ==
    IF self.variant = "ImplicitDualQuaternion"
    THEN IF other.variant = "ImplicitDualQuaternion"
         THEN Counted(Ok(new_implicit_dual_quaternion(IDQ_multiply_shortcircuit(self.data, other.data))), 0)
         ELSE Counted(ErrGeneric, 0)
    ELSE IF self.variant = "HomogeneousMatrix"
    THEN IF other.variant = "HomogeneousMatrix"
         THEN Counted(Ok(new_homogeneous_matrix(HM_multiply(self.data, other.data))), 0)
         ELSE Counted(ErrGeneric, 0)
    ELSE IF other.variant = "RotationAndTranslation"
         THEN LET r == RT_multiply(self.data, other.data, conversion_if_necessary)
              IN IF r.res.kind # "Ok" THEN r
                 ELSE Counted(Ok(new_rotation_and_translation(r.res.val)), r.conversions)
         ELSE Counted(ErrGeneric, 0)

\* multiply that converts the left operand to the type of the right one
PoseMultiplyConvertsLeftOperand(self, other, conversion_if_necessary) ==
    IF ~are_types_compatible(self, other)
    THEN IF conversion_if_necessary
         THEN LET new_operand == pose_convert(self, get_pose_type(other))
                  r == pose_multiply_match(new_operand, other, conversion_if_necessary)
              IN Counted(r.res, r.conversions + 1)
         ELSE Counted(ErrGeneric, 0)
    ELSE pose_multiply_match(self, other, conversion_if_necessary)

\* OptimaSE3Pose::multiply
RECURSIVE pose_multiply(_, _, _)
pose_multiply(self, other, conversion_if_necessary) ==
    IF ~are_types_compatible(self, other)
    THEN IF conversion_if_necessary
         THEN LET new_operand == pose_convert(other, get_pose_type(self))
                  r == pose_multiply(self, new_operand, conversion_if_necessary)
              IN Counted(r.res, r.conversions + 1)
         ELSE Counted(ErrGeneric, 0)
    ELSE pose_multiply_match(self, other, conversion_if_necessary)

\* the match of OptimaSE3Pose::displacement on the variants of both operands
pose_displacement_match(self, other, conversion_if_necessary) ==
    IF self.variant = "ImplicitDualQuaternion"
    THEN IF other.variant = "ImplicitDualQuaternion"
         THEN Counted(Ok(new_implicit_dual_quaternion(IDQ_displacement(self.data, other.data))), 0)
         ELSE Counted(ErrGeneric, 0)
    ELSE IF self.variant = "HomogeneousMatrix"
    THEN IF other.variant = "HomogeneousMatrix"
         THEN Counted(Ok(new_homogeneous_matrix(HM_displacement(self.data, other.data))), 0)
         ELSE Counted(ErrGeneric, 0)
    ELSE IF other.variant = "RotationAndTranslation"
         THEN LET r == RT_displacement(self.data, other.data, conversion_if_necessary)
              IN IF r.res.kind # "Ok" THEN r
                 ELSE Counted(Ok(new_rotation_and_translation(r.res.val)), r.conversions)
         ELSE Counted(ErrGeneric, 0)

\* OptimaSE3Pose::displacement
RECURSIVE pose_displacement(_, _, _)
pose_displacement(self, other, conversion_if_necessary) ==
    IF ~are_types_compatible(self, other)
    THEN IF conversion_if_necessary
         THEN LET new_operand == pose_convert(other, get_pose_type(self))
                  r == pose_displacement(self, new_operand, conversion_if_necessary)
              IN Counted(r.res, r.conversions + 1)
         ELSE Counted(ErrGeneric, 0)
    ELSE pose_displacement_match(self, other, conversion_if_necessary)

\* the match of OptimaSE3Pose::distance_function on the variants of both operands
pose_distance_function_match(self, other, conversion_if_necessary) ==
    IF self.variant = "ImplicitDualQuaternion"
    THEN IF other.variant = "ImplicitDualQuaternion"
         THEN Counted(Ok(IDQ_ln_l2_magnitude(IDQ_displacement(self.data, other.data))), 0)
         ELSE Counted(ErrGeneric, 0)
    ELSE IF self.variant = "HomogeneousMatrix"
    THEN IF other.variant = "HomogeneousMatrix"
         THEN Counted(Ok(HM_approximate_distance(self.data, other.data)), 0)
         ELSE Counted(ErrGeneric, 0)
    ELSE IF other.variant = "RotationAndTranslation"
         THEN RT_approximate_distance(self.data, other.data, conversion_if_necessary)
         ELSE Counted(ErrGeneric, 0)

\* OptimaSE3Pose::distance_function
RECURSIVE pose_distance_function(_, _, _)
pose_distance_function(self, other, conversion_if_necessary) ==
    IF ~are_types_compatible(self, other)
    THEN IF conversion_if_necessary
         THEN LET new_operand == pose_convert(other, get_pose_type(self))
                  r == pose_distance_function(self, new_operand, conversion_if_necessary)
              IN Counted(r.res, r.conversions + 1)
         ELSE Counted(ErrGeneric, 0)
    ELSE pose_distance_function_match(self, other, conversion_if_necessary)

\* the operations are pure: a behaviour applies one of them to one pair of poses
FreshPoses == op.name = "none"

PoseReturns(name, self, other, conversion_if_necessary, r) ==
    /\ op' = [name |-> name, a |-> <<self, other>>, b |-> conversion_if_necessary]
    /\ ret' = r.res
    /\ conversions' = r.conversions
    /\ UNCHANGED <<shape, phase, raw_num_links, raw_joints, model, chain_adds, robot_state_module>>

PoseMultiply ==
    /\ FreshPoses
    /\ \E self \in OptimaSE3Poses, other \in OptimaSE3Poses, conversion_if_necessary \in BOOLEAN :
        PoseReturns("multiply", self, other, conversion_if_necessary,
                    pose_multiply(self, other, conversion_if_necessary))

PoseDisplacement ==
    /\ FreshPoses
    /\ \E self \in OptimaSE3Poses, other \in OptimaSE3Poses, conversion_if_necessary \in BOOLEAN :
        PoseReturns("displacement", self, other, conversion_if_necessary,
                    pose_displacement(self, other, conversion_if_necessary))

PoseDistanceFunction ==
    /\ FreshPoses
    /\ \E self \in OptimaSE3Poses, other \in OptimaSE3Poses, conversion_if_necessary \in BOOLEAN :
        PoseReturns("distance_function", self, other, conversion_if_necessary,
                    pose_distance_function(self, other, conversion_if_necessary))

\* the forward transform R p + t and the inverse transform R^-1 (p - t) of a
\* point, per representation
IDQ_multiply_by_point_shortcircuit(a, point) == VecAdd(QuatRotate(a.quaternion, point), a.translation)
IDQ_inverse_multiply_by_point_shortcircuit(a, point) ==
    QuatRotate(QuatInverse(a.quaternion), VecSub(point, a.translation))
HM_multiply_by_point(a, point) == VecAdd(MatVec(HM_rotation(a), point), HM_translation(a))
HM_inverse_multiply_by_point(a, point) ==
    MatVec(MatTranspose(HM_rotation(a)), VecSub(point, HM_translation(a)))
RT_multiply_by_point(a, point) == VecAdd(rotation_multiply_by_point(a.rotation, point), a.translation)
RT_inverse_multiply_by_point(a, point) ==
    rotation_multiply_by_point(rotation_inverse(a.rotation), VecSub(point, a.translation))

\* OptimaSE3Pose::multiply_by_point
pose_multiply_by_point(self, point) ==
    IF self.variant = "ImplicitDualQuaternion"
    THEN IDQ_inverse_multiply_by_point_shortcircuit(self.data, point)
    ELSE IF self.variant = "HomogeneousMatrix" THEN HM_multiply_by_point(self.data, point)
    ELSE RT_multiply_by_point(self.data, point)

\* OptimaSE3Pose::inverse_multiply_by_point
pose_inverse_multiply_by_point(self, point) ==
    IF self.variant = "ImplicitDualQuaternion"
    THEN IDQ_inverse_multiply_by_point_shortcircuit(self.data, point)
    ELSE IF self.variant = "HomogeneousMatrix" THEN HM_inverse_multiply_by_point(self.data, point)
    ELSE RT_inverse_multiply_by_point(self.data, point)

Points == {<<1, 0, 0>>, <<1, 2, 3>>}

PointReturns(name, self, point, r) ==
    /\ op' = [name |-> name, a |-> <<self, point>>, b |-> 0]
    /\ ret' = Ok(r)
    /\ UNCHANGED <<geometry, phase, raw_num_links, raw_joints, model, chain_adds, robot_state_module>>

PoseMultiplyByPoint ==
    /\ FreshPoses
    /\ \E self \in OptimaSE3Poses, point \in Points :
          PointReturns("multiply_by_point", self, point, pose_multiply_by_point(self, point))

PoseInverseMultiplyByPoint ==
    /\ FreshPoses
    /\ \E self \in OptimaSE3Poses, point \in Points :
          PointReturns("inverse_multiply_by_point", self, point,
                       pose_inverse_multiply_by_point(self, point))

\* inverse_multiply_by_point of the point multiply_by_point gives
PosePointRoundTrip ==
    /\ FreshPoses
    /\ \E self \in OptimaSE3Poses, point \in Points :
          PointReturns("point_round_trip", self, point,
                       pose_inverse_multiply_by_point(self, pose_multiply_by_point(self, point)))

\* ---------------------------------------------------------------------------
\* RobotGeometricShapeModule.  Distances are counted in hundredths of a length
\* unit.  The clock, the joint state sampler, the shape source and the
\* geometric query engine are inputs: env holds what they give in this run.
\* ---------------------------------------------------------------------------
AllRepresentations ==
    <<"Cubes", "ConvexShapes", "SphereSubcomponents", "CubeSubcomponents",
      "ConvexShapeSubcomponents", "TriangleMeshes">>

max_samples == 100000
min_samples == 70
NeverCollideSamples == 1000
ShallowContactLimit == -12

\* signature RobotLink { link_idx, shape_idx_in_link } of every shape, from the
\* link each shape is attached to
ShapeIdxInLink(shape_links, k) == Cardinality({m \in 1..(k - 1) : shape_links[m] = shape_links[k]})
Signatures(shape_links) == [k \in 1..Len(shape_links) |-> <<shape_links[k], ShapeIdxInLink(shape_links, k)>>]

\* pairs <<a, b>> of shape indices a < b among n shapes
ShapePairs(n) == {p \in (0..(n - 1)) \X (0..(n - 1)) : p[1] < p[2]}

\* what the engine reports for a pair over the samples: its distance at sample i
CollisionPatterns == {"apart", "touching", "once", "all_but_once"}
SampleDistance(pattern, i) ==
    IF pattern = "apart" THEN 100
    ELSE IF pattern = "touching" THEN 0
    ELSE IF pattern = "once" THEN (IF i = 0 THEN -100 ELSE 100)
    ELSE (IF i = 0 THEN 100 ELSE -100)

\* env = <<link of every shape, milliseconds one sample takes on the clock of
\* the run (a steady clock), collision pattern of every pair>>
EnvShapeLinks(e) == e[1]
EnvSampleMillis(e) == e[2]
EnvPattern(e) == e[3]
NoEnv == <<<<>>, 0, <<>>>>

\* AveragingFloat
AveragingFloat_new == [total |-> 0, counter |-> 0]
AveragingFloat_absorb(x, value) == [total |-> x.total + value, counter |-> x.counter + 1]
AveragingFloat_value(x) == <<x.total, x.counter>>

\* SquareArray2D: a side x side array; a symmetric one keeps (r, c) and (c, r) equal
SquareArray2D_new(side, symmetric, default) ==
    [symmetric |-> symmetric, cells |-> [r \in 1..side |-> [c \in 1..side |-> default]]]
SquareArray2D_data_cell(arr, r, c) == arr.cells[r + 1][c + 1]
SquareArray2D_replace_data(arr, data, r, c) ==
    [arr EXCEPT !.cells = [x \in 1..Len(arr.cells) |-> [y \in 1..Len(arr.cells) |->
        IF (x = r + 1 /\ y = c + 1) \/ (arr.symmetric /\ x = c + 1 /\ y = r + 1)
        THEN data ELSE arr.cells[x][y]]]]
\* adjust_data: the cell is replaced by the adjusted value of the cell
SquareArray2D_adjust_data(arr, adjusted, r, c) == SquareArray2D_replace_data(arr, adjusted, r, c)

\* ShapeCollection of the given shapes: nothing skipped, no distance recorded
ShapeCollection_new(signatures) ==
    [shapes |-> signatures,
     skips |-> SquareArray2D_new(Len(signatures), TRUE, FALSE),
     average_distances |-> SquareArray2D_new(Len(signatures), TRUE, <<0, 0>>)]
replace_skip_from_idxs(sc, skip, idx1, idx2) ==
    [sc EXCEPT !.skips = SquareArray2D_replace_data(sc.skips, skip, idx1, idx2)]
replace_average_distance_from_idxs(sc, dis, idx1, idx2) ==
    [sc EXCEPT !.average_distances = SquareArray2D_replace_data(sc.average_distances, dis, idx1, idx2)]
get_shape_idx_from_signature(sc, signature) ==
    (CHOOSE k \in 1..Len(sc.shapes) : sc.shapes[k] = signature) - 1

\* RobotShapeCollection::new
RobotShapeCollection_new(num_robot_links, robot_link_shape_representation, shape_collection) ==
    IF \E k \in 1..Len(shape_collection.shapes) : shape_collection.shapes[k][1] >= num_robot_links
    THEN Panic
    ELSE Ok([robot_link_shape_representation |-> robot_link_shape_representation,
             shape_collection |-> shape_collection,
             link_idx_to_shape_idxs_mapping |->
                 [l \in 1..num_robot_links |->
                     SelectSeq([k \in 1..Len(shape_collection.shapes) |-> k - 1],
                               LAMBDA k : At(shape_collection.shapes, k)[1] = l - 1)]])

\* stop_at_min_sample_duration, in milliseconds
stop_at_min_sample_duration(robot_link_shape_representation) ==
    CASE robot_link_shape_representation = "Cubes" -> 20000
      [] robot_link_shape_representation = "ConvexShapes" -> 30000
      [] robot_link_shape_representation = "SphereSubcomponents" -> 30000
      [] robot_link_shape_representation = "CubeSubcomponents" -> 30000
      [] robot_link_shape_representation = "ConvexShapeSubcomponents" -> 60000
      [] robot_link_shape_representation = "TriangleMeshes" -> 120000

\* start.elapsed() at the end of sample i of a scheme, in milliseconds
Elapsed(e, i) == (i + 1) * EnvSampleMillis(e)

\* duration > stop_at_min_sample_duration(..) at the end of sample i
BudgetElapsed(e, robot_link_shape_representation, i) ==
    Elapsed(e, i) > stop_at_min_sample_duration(robot_link_shape_representation)

\* clocks: one on which every budget is over when the first sample ends, one
\* on which the longest budget ends with sample NeverCollideSamples, and one
\* that stands still
SlowClock == 2 * stop_at_min_sample_duration("TriangleMeshes")
FastClock == stop_at_min_sample_duration("TriangleMeshes") \div NeverCollideSamples
StoppedClock == FastClock - FastClock

\* variant of OutputsLoop that counts a collision only below distance 0
RECURSIVE OutputsLoopStrictlyBelowZero(_, _, _, _, _, _)
OutputsLoopStrictlyBelowZero(e, rsc, i, pairs, averages, counters) ==
    IF pairs = <<>> THEN [distance_average_array |-> averages, collision_counter_array |-> counters]
    ELSE LET p == Head(pairs)
             shape_idx1 == get_shape_idx_from_signature(rsc.shape_collection, At(rsc.shape_collection.shapes, p[1]))
             shape_idx2 == get_shape_idx_from_signature(rsc.shape_collection, At(rsc.shape_collection.shapes, p[2]))
             dis == SampleDistance(EnvPattern(e)[p], i)
             absorbed == AveragingFloat_absorb(SquareArray2D_data_cell(averages, shape_idx1, shape_idx2), dis)
             incremented == SquareArray2D_data_cell(counters, shape_idx1, shape_idx2) + 1
             averages2 == SquareArray2D_adjust_data(averages, absorbed, shape_idx1, shape_idx2)
             counters2 == IF dis < 0
                          THEN SquareArray2D_adjust_data(counters, incremented, shape_idx1, shape_idx2)
                          ELSE counters
         IN OutputsLoopStrictlyBelowZero(e, rsc, i, Tail(pairs), averages2, counters2)

\* the for loop over the outputs of the distance query of sample i, from the
\* output of the first pair of the list on
RECURSIVE OutputsLoop(_, _, _, _, _, _)
OutputsLoop(e, rsc, i, pairs, averages, counters) ==
    IF pairs = <<>> THEN [distance_average_array |-> averages, collision_counter_array |-> counters]
    ELSE LET p == Head(pairs)
             shape_idx1 == get_shape_idx_from_signature(rsc.shape_collection, At(rsc.shape_collection.shapes, p[1]))
             shape_idx2 == get_shape_idx_from_signature(rsc.shape_collection, At(rsc.shape_collection.shapes, p[2]))
             dis == SampleDistance(EnvPattern(e)[p], i)
             absorbed == AveragingFloat_absorb(SquareArray2D_data_cell(averages, shape_idx1, shape_idx2), dis)
             incremented == SquareArray2D_data_cell(counters, shape_idx1, shape_idx2) + 1
             averages2 == SquareArray2D_adjust_data(averages, absorbed, shape_idx1, shape_idx2)
             counters2 == IF dis <= 0
                          THEN SquareArray2D_adjust_data(counters, incremented, shape_idx1, shape_idx2)
                          ELSE counters
         IN OutputsLoop(e, rsc, i, Tail(pairs), averages2, counters2)

\* the pairs the distance query reports, in index order
RECURSIVE PairList(_, _, _)
PairList(n, a, b) ==
    IF a >= n - 1 THEN <<>>
    ELSE IF b >= n THEN PairList(n, a + 1, a + 2)
    ELSE <<<<a, b>>>> \o PairList(n, a, b + 1)

\* variant of FinalizeCell that decides on the collision ratio alone
FinalizeCellOnRatioAlone(rsc, averages, counters, count, i, j) ==
    LET sc0 == replace_average_distance_from_idxs(rsc.shape_collection,
                   AveragingFloat_value(SquareArray2D_data_cell(averages, i, j)), i, j)
        collisions == SquareArray2D_data_cell(counters, i, j)
        sc3 == IF count >= min_samples /\ 100 * collisions > 99 * count
               THEN replace_skip_from_idxs(sc0, TRUE, i, j) ELSE sc0
        sc4 == IF count >= NeverCollideSamples /\ collisions = 0
               THEN replace_skip_from_idxs(sc3, TRUE, i, j) ELSE sc3
    IN [rsc EXCEPT !.shape_collection = sc4]

\* the skip decisions of cell (i, j) after sampling
FinalizeCell(rsc, averages, counters, count, i, j) ==
    LET sc0 == replace_average_distance_from_idxs(rsc.shape_collection,
                   AveragingFloat_value(SquareArray2D_data_cell(averages, i, j)), i, j)
        sc1 == IF i = j THEN replace_skip_from_idxs(sc0, TRUE, i, j) ELSE sc0
        link_idx1 == At(sc1.shapes, i)[1]
        link_idx2 == At(sc1.shapes, j)[1]
        sc2 == IF link_idx1 = link_idx2 THEN replace_skip_from_idxs(sc1, TRUE, i, j) ELSE sc1
        collisions == SquareArray2D_data_cell(counters, i, j)
        \* ratio_of_checks_in_collision > 0.99
        sc3 == IF count >= min_samples /\ 100 * collisions > 99 * count
               THEN replace_skip_from_idxs(sc2, TRUE, i, j) ELSE sc2
        \* ratio_of_checks_in_collision == 0.0
        sc4 == IF count >= NeverCollideSamples /\ collisions = 0
               THEN replace_skip_from_idxs(sc3, TRUE, i, j) ELSE sc3
    IN [rsc EXCEPT !.shape_collection = sc4]

\* the two for loops over the cells, from cell number k on in row order
RECURSIVE FinalizeLoop(_, _, _, _, _)
FinalizeLoop(rsc, averages, counters, count, k) ==
    LET num_shapes == Len(rsc.shape_collection.shapes)
    IN IF k >= num_shapes * num_shapes THEN rsc
       ELSE FinalizeLoop(FinalizeCell(rsc, averages, counters, count, k \div num_shapes, k % num_shapes),
                         averages, counters, count, k + 1)

\* a RobotConfigurationModule is told by the number of mobility-base links it
\* appends to the base model; the base configuration appends none
BaseConfiguration == 0
NoConfigurations ==
    [module |-> BaseConfiguration, current_asset |-> BaseConfiguration, permanent_asset |-> BaseConfiguration]

\* get_save_serialization_object: an asset holds the configuration of the module
\* that saves it
SavedConfigurations(assets) ==
    [c \in DOMAIN configurations |-> IF c \in assets THEN configurations.module ELSE configurations[c]]

\* the position inside RobotGeometricShapeModule::new and its preprocessing
IdlePosition ==
    [stage |-> "idle", scheme |-> 0, i |-> 0, count |-> 0, calls |-> 0,
     distance_average_array |-> <<>>, collision_counter_array |-> <<>>,
     robot_shape_collection |-> <<>>]

ShapeReturns(name, a, b, r) ==
    /\ op' = [name |-> name, a |-> a, b |-> b]
    /\ ret' = r
    /\ UNCHANGED <<conversions, phase, raw_num_links, raw_joints, model, chain_adds, robot_state_module>>

\* a failed step of new: the error is returned, the locals are dropped
ShapeModuleFails(step) ==
    /\ pp' = [IdlePosition EXCEPT !.stage = "failed", !.scheme = pp.scheme]
    /\ ShapeReturns("robot_geometric_shape_module_new", step, op.b, ErrGeneric)
    /\ UNCHANGED <<env, preprocessed>>

\* RobotGeometricShapeModule::new up to the first call of
\* preprocessing_robot_geometric_shape_collection, called at one of the given
\* stages with one of the given inputs and configurations: an error of
\* RobotMeshFileManagerModule::new_from_name is returned before anything else
\* is tried; load_as_asset gives the module of the current asset, with the
\* configuration stored in it
ShapeModuleNewFrom(stages, envs, supplied) ==
    /\ pp.stage \in stages
    /\ \E e \in envs, robot_configuration_module \in supplied, force_preprocessing \in BOOLEAN,
          mesh_file_manager_fails \in BOOLEAN :
          /\ env' = e
          /\ IF mesh_file_manager_fails
             THEN /\ robot_shape_collections' = <<>>
                  /\ configurations' = configurations
                  /\ pp' = [IdlePosition EXCEPT !.stage = "failed"]
                  /\ preprocessed' = preprocessed
                  /\ ShapeReturns("robot_geometric_shape_module_new", "mesh_file_manager",
                                  robot_configuration_module, ErrGeneric)
             ELSE IF ~force_preprocessing /\ IsSome(current_asset)
             THEN /\ robot_shape_collections' = Unwrap(current_asset)
                  /\ configurations' = [configurations EXCEPT !.module = configurations.current_asset]
                  /\ pp' = [IdlePosition EXCEPT !.stage = "done"]
                  /\ preprocessed' = IF IsSome(permanent_asset) THEN Unwrap(permanent_asset) ELSE <<>>
                  /\ ShapeReturns("robot_geometric_shape_module_new", "load", robot_configuration_module, Ok(0))
             ELSE /\ robot_shape_collections' = <<>>
                  /\ configurations' = [configurations EXCEPT !.module = robot_configuration_module]
                  /\ pp' = [IdlePosition EXCEPT !.stage = "scheme"]
                  /\ preprocessed' = preprocessed
                  /\ ShapeReturns("robot_geometric_shape_module_new", "preprocessing",
                                  robot_configuration_module, NoRet)
    /\ UNCHANGED <<current_asset, permanent_asset>>

\* the first call of new, with the base configuration
ShapeModuleNew(envs) == ShapeModuleNewFrom({"idle"}, envs, {BaseConfiguration})

\* preprocessing_robot_geometric_shape_collection up to the sampling loop
StartScheme ==
    /\ pp.stage = "scheme"
    /\ LET robot_link_shape_representation == At(AllRepresentations, pp.scheme)
           num_links == raw_num_links
           shape_collection == ShapeCollection_new(Signatures(EnvShapeLinks(env)))
           num_shapes == Len(shape_collection.shapes)
           robot_shape_collection ==
               RobotShapeCollection_new(num_links, robot_link_shape_representation, shape_collection)
       IN IF robot_shape_collection.kind = "Panic"
          THEN /\ pp' = [IdlePosition EXCEPT !.stage = "failed", !.scheme = pp.scheme]
               /\ op' = op
               /\ ret' = Panic
               /\ phase' = "panicked"
               /\ UNCHANGED <<conversions, raw_num_links, raw_joints, model, chain_adds, robot_state_module>>
          ELSE /\ pp' = [pp EXCEPT !.stage = "sampling", !.i = 0, !.count = 0,
                                   !.distance_average_array = SquareArray2D_new(num_shapes, TRUE, AveragingFloat_new),
                                   !.collision_counter_array = SquareArray2D_new(num_shapes, TRUE, 0),
                                   !.robot_shape_collection = robot_shape_collection.val]
               /\ ShapeReturns(op.name, op.a, op.b, ret)
    /\ UNCHANGED <<env, robot_shape_collections, current_asset, permanent_asset, preprocessed, configurations>>

\* an error of the base modules or of the shape source before the sampling loop
FailBeforeSampling ==
    /\ pp.stage = "scheme"
    /\ ShapeModuleFails("shapes")
    /\ UNCHANGED <<robot_shape_collections, current_asset, permanent_asset, configurations>>

\* one iteration of the sampling loop
Sample ==
    /\ pp.stage = "sampling"
    /\ LET i == pp.i
           count == pp.count + 1
           num_shapes == Len(pp.robot_shape_collection.shape_collection.shapes)
           arrays == OutputsLoop(env, pp.robot_shape_collection, i, PairList(num_shapes, 0, 1),
                                 pp.distance_average_array, pp.collision_counter_array)
           break == BudgetElapsed(env, At(AllRepresentations, pp.scheme), i) /\ i >= min_samples
           loop_ends == break \/ i + 1 >= max_samples
       IN pp' = [pp EXCEPT !.count = count,
                           !.distance_average_array = arrays.distance_average_array,
                           !.collision_counter_array = arrays.collision_counter_array,
                           !.i = IF loop_ends THEN i ELSE i + 1,
                           !.stage = IF loop_ends THEN "sampled" ELSE "sampling"]
    /\ ShapeReturns(op.name, op.a, op.b, ret)
    /\ UNCHANGED <<env, robot_shape_collections, current_asset, permanent_asset, preprocessed, configurations>>

\* variant of FailSample that keeps what was sampled so far
FailSampleKeepsPartialProgress ==
    /\ pp.stage = "sampling"
    /\ ShapeModuleFails("sample")
    /\ robot_shape_collections' = Append(robot_shape_collections, pp.robot_shape_collection)
    /\ current_asset' = Some(robot_shape_collections')
    /\ UNCHANGED <<permanent_asset, configurations>>

\* an error of forward kinematics, of the pose recovery, of the distance query
\* or of a signature lookup in an iteration
FailSample ==
    /\ pp.stage = "sampling"
    /\ ShapeModuleFails("sample")
    /\ UNCHANGED <<robot_shape_collections, current_asset, permanent_asset, configurations>>

\* preprocessing_robot_geometric_shape_collection after the sampling loop, then
\* the next scheme of preprocessing or the return of new
FinishScheme ==
    /\ pp.stage = "sampled"
    /\ LET robot_shape_collection ==
               FinalizeLoop(pp.robot_shape_collection, pp.distance_average_array,
                            pp.collision_counter_array, pp.count, 0)
           pushed == Append(robot_shape_collections, robot_shape_collection)
           last == pp.scheme + 1 >= Len(AllRepresentations)
       IN /\ robot_shape_collections' = pushed
          /\ current_asset' = Some(pushed)
          /\ permanent_asset' = Some(pushed)
          /\ configurations' = SavedConfigurations({"current_asset", "permanent_asset"})
          /\ pp' = [IdlePosition EXCEPT !.stage = IF last THEN "done" ELSE "scheme",
                                        !.scheme = IF last THEN pp.scheme ELSE pp.scheme + 1,
                                        !.count = pp.count]
          /\ preprocessed' = IF last THEN pushed ELSE preprocessed
          /\ ShapeReturns(op.name, op.a, op.b, IF last THEN Ok(0) ELSE ret)
    /\ UNCHANGED env

\* an error of one of the two save_as_asset calls that end the preprocessing
\* of a scheme
FailSaveAsset ==
    /\ pp.stage = "sampled"
    /\ \E permanent_fails \in BOOLEAN :
          LET robot_shape_collection ==
                  FinalizeLoop(pp.robot_shape_collection, pp.distance_average_array,
                               pp.collision_counter_array, pp.count, 0)
              pushed == Append(robot_shape_collections, robot_shape_collection)
          IN /\ robot_shape_collections' = pushed
             /\ current_asset' = IF permanent_fails THEN Some(pushed) ELSE current_asset
             /\ configurations' = IF permanent_fails THEN SavedConfigurations({"current_asset"})
                                   ELSE configurations
             /\ UNCHANGED permanent_asset
    /\ ShapeModuleFails("save")

\* robot_shape_collection / robot_geometric_shape_collection_mut: the position
\* (from 1) of the collection of a representation, 0 when there is none
CollectionPosition(collections, shape_representation) ==
    LET hits == {k \in 1..Len(collections) :
                    collections[k].robot_link_shape_representation = shape_representation}
    IN IF hits = {} THEN 0 ELSE CHOOSE k \in hits : \A m \in hits : k <= m

\* calls of the operations of a module after new
MaxCalls == 2

\* robot_shape_collection: the first collection of the representation
robot_shape_collection(collections, shape_representation) ==
    LET k == CollectionPosition(collections, shape_representation)
    IN IF k = 0 THEN [kind |-> "Err", val |-> "UnreachableCode"] ELSE Ok(collections[k])

\* compute_fk on the configuration of the module: one entry per link of the
\* configured model, each with the pose of its link (told by the link index)
MobileBaseConfiguration == 1
ConfiguredNumLinks(configuration) == raw_num_links + configuration
FKLinkEntries(configuration) == [k \in 1..ConfiguredNumLinks(configuration) |-> Some(k - 1)]

\* get_shape_idxs_from_link_idx
get_shape_idxs_from_link_idx(collection, link_idx) ==
    IF link_idx >= Len(collection.link_idx_to_shape_idxs_mapping) THEN ErrIdx
    ELSE Ok(At(collection.link_idx_to_shape_idxs_mapping, link_idx))

\* recover_poses, from link entry number link_idx on; poses[k] is the pose
\* given to shape k - 1 so far
RECURSIVE RecoverPosesLoop(_, _, _, _)
RecoverPosesLoop(collection, link_entries, link_idx, poses) ==
    IF link_idx >= Len(link_entries) THEN Ok(poses)
    ELSE LET pose == At(link_entries, link_idx)
         IN IF IsNone(pose) THEN RecoverPosesLoop(collection, link_entries, link_idx + 1, poses)
            ELSE LET shape_idxs == get_shape_idxs_from_link_idx(collection, link_idx)
                 IN IF shape_idxs.kind # "Ok" THEN shape_idxs
                    ELSE RecoverPosesLoop(collection, link_entries, link_idx + 1,
                             [k \in 1..Len(poses) |->
                                 IF \E m \in 1..Len(shape_idxs.val) : shape_idxs.val[m] = k - 1
                                 THEN pose ELSE poses[k]])

recover_poses(collection, link_entries) ==
    RecoverPosesLoop(collection, link_entries, 0,
                     [k \in 1..Len(collection.shape_collection.shapes) |-> None])

\* shape_collection_query: forward kinematics, the collection of the
\* representation, the poses of its shapes, then the query of the collection
QueryVariants ==
    {"ProjectPoint", "ContainsPoint", "DistanceToPoint", "IntersectsRay", "CastRay",
     "CastRayAndGetNormal", "IntersectionTest", "Distance", "ClosestPoints", "Contact", "CCD"}

shape_collection_query(collections, configuration, variant, robot_link_shape_representation) ==
    LET res == FKLinkEntries(configuration)
        collection == robot_shape_collection(collections, robot_link_shape_representation)
    IN IF collection.kind # "Ok" THEN collection
       ELSE LET poses == recover_poses(collection.val, res)
            IN IF poses.kind # "Ok" THEN poses
               ELSE Ok([variant |-> variant, poses |-> poses.val])

ShapeCollectionQuery ==
    /\ pp.stage = "done"
    /\ pp.calls < MaxCalls
    /\ \E variant \in QueryVariants, s \in 1..Len(AllRepresentations) :
          ShapeReturns("shape_collection_query", variant, AllRepresentations[s],
                       shape_collection_query(robot_shape_collections, configurations.module,
                                              variant, AllRepresentations[s]))
    /\ pp' = [pp EXCEPT !.calls = pp.calls + 1]
    /\ UNCHANGED <<env, robot_shape_collections, current_asset, permanent_asset, preprocessed, configurations>>

\* variant of ContactOutputsLoop that also marks a contact at the limit depth
RECURSIVE ContactOutputsLoopUpToLimit(_, _, _)
ContactOutputsLoopUpToLimit(collection, contacts, pairs) ==
    IF pairs = <<>> THEN collection
    ELSE LET p == Head(pairs)
             contact == contacts[p]
             sc == collection.shape_collection
             idx1 == get_shape_idx_from_signature(sc, At(sc.shapes, p[1]))
             idx2 == get_shape_idx_from_signature(sc, At(sc.shapes, p[2]))
             marked == IF IsSome(contact) /\ Unwrap(contact) <= 0 /\ Unwrap(contact) >= ShallowContactLimit
                       THEN [collection EXCEPT !.shape_collection = replace_skip_from_idxs(sc, TRUE, idx1, idx2)]
                       ELSE collection
         IN ContactOutputsLoopUpToLimit(marked, contacts, Tail(pairs))

\* the for loop over the outputs of the contact query of one collection
RECURSIVE ContactOutputsLoop(_, _, _)
ContactOutputsLoop(collection, contacts, pairs) ==
    IF pairs = <<>> THEN collection
    ELSE LET p == Head(pairs)
             contact == contacts[p]
             sc == collection.shape_collection
             idx1 == get_shape_idx_from_signature(sc, At(sc.shapes, p[1]))
             idx2 == get_shape_idx_from_signature(sc, At(sc.shapes, p[2]))
             marked == IF IsSome(contact) /\ Unwrap(contact) <= 0 /\ Unwrap(contact) > ShallowContactLimit
                       THEN [collection EXCEPT !.shape_collection = replace_skip_from_idxs(sc, TRUE, idx1, idx2)]
                       ELSE collection
         IN ContactOutputsLoop(marked, contacts, Tail(pairs))

\* the for loop of set_robot_joint_state_as_non_collision over the
\* representations from position s on; contacts[s][p] is the contact of pair p
\* in the collection of representation s, None when the shapes are too far apart
\* The collections are changed in place: the result carries them as they are
\* when the loop ends, with Ok or with the error of a query.
RECURSIVE NonCollisionLoop(_, _, _, _)
NonCollisionLoop(collections, configuration, contacts, s) ==
    IF s > Len(AllRepresentations) THEN [res |-> Ok(0), collections |-> collections]
    ELSE LET res == shape_collection_query(collections, configuration, "Contact", AllRepresentations[s])
             k == CollectionPosition(collections, AllRepresentations[s])
         IN IF res.kind # "Ok" THEN [res |-> [kind |-> res.kind, val |-> res.val], collections |-> collections]
            ELSE LET num_shapes == Len(collections[k].shape_collection.shapes)
                     collection == ContactOutputsLoop(collections[k], contacts[s],
                                                      PairList(num_shapes, 0, 1))
                 IN NonCollisionLoop([collections EXCEPT ![k] = collection], configuration,
                                     contacts, s + 1)

\* the contacts the engine reports at the given joint state: distance d for the
\* pairs in hit of the representations in schemes
NoContact == None
ContactDistances == {-13, -12, -11, 0, 1}
ContactsOf(num_shapes, schemes, hit, d) ==
    [s \in 1..Len(AllRepresentations) |->
        [p \in ShapePairs(num_shapes) |-> IF s \in schemes /\ p \in hit THEN Some(d) ELSE NoContact]]

\* set_robot_joint_state_as_non_collision; save_outcomes are the outcomes of
\* the final save_as_asset the asset store can give (TRUE: the save fails)
SetRobotJointStateAsNonCollisionWith(save_outcomes) ==
    /\ pp.stage = "done"
    /\ pp.calls < MaxCalls
    /\ LET num_shapes == Len(EnvShapeLinks(env))
       IN \E schemes \in {1..Len(AllRepresentations), {1}}, p \in ShapePairs(num_shapes),
             d \in ContactDistances, save_fails \in save_outcomes :
             LET contacts == ContactsOf(num_shapes, schemes, {p}, d)
                 r == NonCollisionLoop(robot_shape_collections, configurations.module, contacts, 1)
             IN /\ robot_shape_collections' = r.collections
                /\ IF r.res.kind = "Ok" /\ ~save_fails
                   THEN /\ current_asset' = Some(r.collections)
                        /\ configurations' = SavedConfigurations({"current_asset"})
                        /\ ShapeReturns("set_robot_joint_state_as_non_collision", contacts, 0, Ok(0))
                   ELSE /\ UNCHANGED <<current_asset, configurations>>
                        /\ ShapeReturns("set_robot_joint_state_as_non_collision", contacts, 0,
                                        IF r.res.kind = "Ok" THEN ErrGeneric ELSE r.res)
    /\ pp' = [pp EXCEPT !.calls = pp.calls + 1]
    /\ UNCHANGED <<env, permanent_asset, preprocessed>>

SetRobotJointStateAsNonCollision == SetRobotJointStateAsNonCollisionWith({FALSE})
SetRobotJointStateAsNonCollisionOrFail == SetRobotJointStateAsNonCollisionWith({FALSE, TRUE})

\* reset_robot_geometric_shape_collection up to its save: the collection of
\* the representation becomes the one the permanent asset has at the same
\* position; indexing the permanent asset beyond its length panics
reset_robot_geometric_shape_collection(collections, permanent, robot_link_shape_representation) ==
    LET k == CollectionPosition(collections, robot_link_shape_representation)
    IN IF k = 0 THEN Ok(collections)
       ELSE IF k > Len(permanent) THEN Panic
       ELSE Ok([collections EXCEPT ![k] = permanent[k]])

\* One call of reset_robot_geometric_shape_collection on the module and the
\* current asset given: the load of the permanent asset, the replacement, the
\* save of the current asset (save_fails: the asset store returns an error).
\* The result is what the call returns, the collections and the current asset
\* after it, and whether the current asset was written.
ResetCall(collections, current, robot_link_shape_representation, save_fails) ==
    IF IsNone(permanent_asset)
    THEN [res |-> ErrGeneric, collections |-> collections, current |-> current, saved |-> FALSE]
    ELSE LET r == reset_robot_geometric_shape_collection(
                      collections, Unwrap(permanent_asset), robot_link_shape_representation)
         IN IF r.kind = "Panic"
            THEN [res |-> Panic, collections |-> collections, current |-> current, saved |-> FALSE]
            ELSE IF CollectionPosition(collections, robot_link_shape_representation) = 0
            THEN [res |-> Ok(0), collections |-> collections, current |-> current, saved |-> FALSE]
            ELSE IF save_fails
            THEN [res |-> ErrGeneric, collections |-> r.val, current |-> current, saved |-> FALSE]
            ELSE [res |-> Ok(0), collections |-> r.val, current |-> Some(r.val), saved |-> TRUE]

\* reset_all_robot_geometric_shape_collections from representation s on; "so
\* far" is the result of the calls made, fails_at the representation whose
\* save fails (0: none)
RECURSIVE ResetAllLoop(_, _, _)
ResetAllLoop(sofar, s, fails_at) ==
    IF s > Len(AllRepresentations) \/ sofar.res.kind # "Ok" THEN sofar
    ELSE LET r == ResetCall(sofar.collections, sofar.current, AllRepresentations[s], s = fails_at)
         IN ResetAllLoop([r EXCEPT !.saved = sofar.saved \/ r.saved], s + 1, fails_at)

\* what a call of one of the two reset functions leaves: a panic ends the run
\* of the program, the module is gone and the assets stay as written.  A
\* reset can follow MaxCalls calls.
ResetReturns(name, a, b, r) ==
    /\ robot_shape_collections' = r.collections
    /\ current_asset' = r.current
    /\ configurations' = IF r.saved THEN SavedConfigurations({"current_asset"}) ELSE configurations
    /\ pp' = [pp EXCEPT !.stage = IF r.res.kind = "Panic" THEN "failed" ELSE pp.stage,
                        !.calls = pp.calls + 1]
    /\ phase' = IF r.res.kind = "Panic" THEN "panicked" ELSE phase
    /\ op' = [name |-> name, a |-> a, b |-> b]
    /\ ret' = r.res
    /\ UNCHANGED <<conversions, env, permanent_asset, preprocessed, raw_num_links, raw_joints, model,
                   chain_adds, robot_state_module>>

ResetRobotGeometricShapeCollection ==
    /\ pp.stage = "done"
    /\ pp.calls <= MaxCalls
    /\ \E s \in 1..Len(AllRepresentations), save_fails \in BOOLEAN :
          ResetReturns("reset_robot_geometric_shape_collection", AllRepresentations[s], save_fails,
                       ResetCall(robot_shape_collections, current_asset, AllRepresentations[s], save_fails))

ResetAllRobotGeometricShapeCollections ==
    /\ pp.stage = "done"
    /\ pp.calls <= MaxCalls
    /\ \E fails_at \in 0..Len(AllRepresentations) :
          ResetReturns("reset_all_robot_geometric_shape_collections", fails_at, 0,
                       ResetAllLoop([res |-> Ok(0), collections |-> robot_shape_collections,
                                     current |-> current_asset, saved |-> FALSE], 1, fails_at))

\* ---------------------------------------------------------------------------
\* Initial states and specifications
\* ---------------------------------------------------------------------------
InitGeometry ==
    /\ conversions = 0
    /\ env = NoEnv
    /\ pp = IdlePosition
    /\ robot_shape_collections = <<>>
    /\ current_asset = None
    /\ permanent_asset = None
    /\ preprocessed = <<>>
    /\ configurations = NoConfigurations

InitModel ==
    /\ phase = "raw"
    /\ links = <<>>
    /\ joints = <<>>
    /\ world_link_idx = 0
    /\ robot_base_link_idx = 0
    /\ link_tree_traversal_layers = <<>>
    /\ link_tree_max_depth = 0
    /\ preceding_actuated_joint_idxs = <<>>
    /\ link_chains = [i \in {}, j \in {} |-> <<>>]
    /\ link_name_to_idx_hashmap = [x \in {} |-> 0]
    /\ joint_name_to_idx_hashmap = [x \in {} |-> 0]
    /\ chain_adds = 0
    /\ robot_state_module = None
    /\ op = [name |-> "none", a |-> 0, b |-> 0]
    /\ ret = NoRet
    /\ InitGeometry

\* any raw records, well formed or not
InitBuild ==
    /\ raw_num_links \in 1..MaxLinks
    /\ raw_joints \in SeqsUpTo(RawJoints(raw_num_links), MaxJoints)
    /\ InitModel

\* raw records that form a single tree (a tree over n links has n - 1 joints)
InitTree ==
    /\ raw_num_links \in 1..MaxLinks
    /\ raw_joints \in {rj \in SeqsUpTo(RawJoints(raw_num_links), raw_num_links - 1) :
                         IsRawTree(raw_num_links, rj)}
    /\ InitModel

\* trees of movable joints, the joints listed in the order of their child links
InitOrderedTree ==
    /\ raw_num_links \in 1..MaxLinks
    /\ raw_joints \in {rj \in SeqsUpTo(RawJoints(raw_num_links), raw_num_links - 1) :
                         /\ IsRawTree(raw_num_links, rj)
                         /\ \A k \in 1..Len(rj) : rj[k].axes = 1
                         /\ \A k \in 1..(Len(rj) - 1) : rj[k].child[2] < rj[k + 1].child[2]}
    /\ InitModel

Getters ==
    \/ GetLinkByIdx
    \/ GetJointByIdx
    \/ GetLinkWithHighestTreeTraversalLayer
    \/ GetAllDownstreamLinks
    \/ GetPrecedingActuatedJointIdx
    \/ GetAllLinkIdxsWithGivenPrecedingActuatedJointIdx
    \/ GetLinkChain

\* construction from a tree, then queries of the graph
Next == New \/ GetLinkChain \/ GetPrecedingActuatedJointIdx \/ GetAllDownstreamLinks
Spec == InitTree /\ [][Next]_vars

\* construction from any raw records, well formed or not, then queries
NextBuild == New \/ Getters
SpecBuild == InitBuild /\ [][NextBuild]_vars

\* construction from raw joints between existing links, among them joints
\* that close a cycle and sets of joints that leave no link without a
\* preceding link.  new is single-threaded and synchronous: a call that can
\* take its step takes it.
LoopJoints(n) == {j \in RawJoints(n) : j.parent # GhostName /\ j.child # GhostName}
InitLoops ==
    /\ raw_num_links \in 1..(MaxLinks - 1)
    /\ raw_joints \in SeqsUpTo(LoopJoints(raw_num_links), MaxJoints)
    /\ InitModel
SpecBuildLive == InitLoops /\ [][New]_vars /\ WF_vars(New)

\* construction from a tree, then enabling and disabling of links and joints
\* and recomputation of the traversal layers
NextPresence ==
    \/ New
    \/ SetLinkAsNotPresent
    \/ SetLinkAsPresent
    \/ SetJointAsNotPresent
    \/ SetJointAsPresent
    \/ SetLinkTreeTraversalInfo
SpecPresence == InitOrderedTree /\ [][NextPresence]_vars

\* construction from a tree, then every operation that takes an index
NextIndexed ==
    \/ New
    \/ Getters
    \/ SetLinkAsNotPresent
    \/ SetLinkAsPresent
    \/ SetJointAsNotPresent
    \/ SetJointAsPresent
    \/ SetFixedJointSubDof
    \/ SetFixedJoint
SpecIndexed == InitOrderedTree /\ [][NextIndexed]_vars

\* construction from a tree, fixing and disabling of joints, then the state
\* module of the resulting configuration and its conversions
NextState ==
    \/ New
    \/ SetFixedJoint
    \/ SetJointAsNotPresent
    \/ SetJointAsPresent
    \/ RobotStateModuleNew
    \/ ConvertStateToFullState
SpecState == InitTree /\ [][NextState]_vars

\* construction from a tree, fixing of joints, then the state module, the
\* conversion to a DOF state, the round trip, the addition of states and the
\* construction of a state with an automatic type
NextConvert ==
    \/ New
    \/ SetFixedJoint
    \/ RobotStateModuleNew
    \/ ConvertStateToDofState
    \/ DofStateRoundTrip
    \/ RobotStateAdd
    \/ RobotStateNewTryAutoType
SpecConvert == InitOrderedTree /\ [][NextConvert]_vars

\* the pose algebra alone: operations on pairs of poses
InitPose ==
    /\ raw_num_links = 1
    /\ raw_joints = <<>>
    /\ InitModel
NextPose ==
    \/ PoseMultiply
    \/ PoseDisplacement
    \/ PoseDistanceFunction
SpecPose == InitPose /\ [][NextPose]_vars

\* the poses applied to points
NextPosePoint ==
    \/ PoseMultiplyByPoint
    \/ PoseInverseMultiplyByPoint
    \/ PosePointRoundTrip
SpecPosePoint == InitPose /\ [][NextPosePoint]_vars

\* a robot of two links for the shape module
InitShape ==
    /\ raw_num_links = 2
    /\ raw_joints = <<[parent |-> LinkName(0), child |-> LinkName(1), axes |-> 1]>>
    /\ InitModel

\* inputs of the preprocessing: three shapes, two of them on link 0; the time
\* budgets are over from the start, or the one of the last scheme at sample
\* 1000 and the others earlier
PreprocessPatterns ==
    {pattern \in [ShapePairs(3) -> CollisionPatterns] :
        /\ pattern[<<0, 1>>] \in {"apart", "once"}
        /\ pattern[<<1, 2>>] \in {"apart", "all_but_once"}}
PreprocessEnvs ==
    {<<<<0, 0, 1>>, t, pattern>> : t \in {SlowClock, FastClock}, pattern \in PreprocessPatterns}
NewForPreprocessing == ShapeModuleNew(PreprocessEnvs)
NextPreprocess ==
    \/ NewForPreprocessing
    \/ StartScheme
    \/ Sample
    \/ FinishScheme
    \/ FailBeforeSampling
    \/ FailSample
    \/ FailSaveAsset
SpecPreprocess == InitShape /\ [][NextPreprocess]_vars

\* inputs of the sampling loop alone: two shapes that stay apart; the time
\* budget is over from the start, around sample 70, or never
\* clocks on which the budget of Cubes ends with sample 70, 71 and 72
SamplingClocks == {stop_at_min_sample_duration("Cubes") \div n + 1 : n \in {70, 71, 72}}
SamplingEnvs ==
    {<<<<0, 1>>, t, [p \in ShapePairs(2) |-> "apart"]>> :
        t \in {SlowClock, StoppedClock} \cup SamplingClocks}
NewForSampling == ShapeModuleNew(SamplingEnvs)
NextSampling ==
    \/ NewForSampling
    \/ StartScheme
    \/ Sample
    \/ FinishScheme
SpecSampling == InitShape /\ [][NextSampling]_vars

\* inputs of the calibration: three shapes, two of them on link 0, a time
\* budget that is over from the start
CalibrateEnvs ==
    {<<<<0, 0, 1>>, SlowClock, pattern>> :
        pattern \in {[p \in ShapePairs(3) |-> "apart"],
                     [p \in ShapePairs(3) |-> IF p = <<0, 2>> THEN "touching" ELSE "once"]}}
NewForCalibration == ShapeModuleNew(CalibrateEnvs)
NextCalibrate ==
    \/ NewForCalibration
    \/ StartScheme
    \/ Sample
    \/ FinishScheme
    \/ SetRobotJointStateAsNonCollision
    \/ ResetRobotGeometricShapeCollection
    \/ ResetAllRobotGeometricShapeCollections
SpecCalibrate == InitShape /\ [][NextCalibrate]_vars

\* the shape module over several calls of new: preprocessing that may fail
\* part-way, later calls of new that load or preprocess again, and queries
ReloadEnvs == {<<<<0, 1>>, SlowClock, [p \in ShapePairs(2) |-> "apart"]>>}
ReloadConfigurations == {BaseConfiguration, MobileBaseConfiguration}
NewForReload == ShapeModuleNewFrom({"idle"}, ReloadEnvs, ReloadConfigurations)
NewAgain == ShapeModuleNewFrom({"failed", "done"}, ReloadEnvs, ReloadConfigurations)
NextReload ==
    \/ NewForReload
    \/ NewAgain
    \/ StartScheme
    \/ Sample
    \/ FinishScheme
    \/ FailSample
    \/ ShapeCollectionQuery
SpecReload == InitShape /\ [][NextReload]_vars

\* calibration of a module that may have been loaded from a partial asset or
\* for another configuration, with saves that may fail
NextNonCollision ==
    \/ NewForReload
    \/ NewAgain
    \/ StartScheme
    \/ Sample
    \/ FinishScheme
    \/ FailSample
    \/ FailSaveAsset
    \/ SetRobotJointStateAsNonCollisionOrFail
    \/ ResetRobotGeometricShapeCollection
    \/ ResetAllRobotGeometricShapeCollections
SpecNonCollision == InitShape /\ [][NextNonCollision]_vars

\* construction from a tree, then insertion of a mobility base
NextChain ==
    \/ New
    \/ AddContiguousChainLinkAndJoint
    \/ SetPrecedingActuatedJointIdxs
    \/ GetAllLinkIdxsWithGivenPrecedingActuatedJointIdx
SpecChain == InitTree /\ [][NextChain]_vars

\* ---------------------------------------------------------------------------
\* Notions of the raw description used to state the properties
\* ---------------------------------------------------------------------------
BuiltOk == phase = "built"

\* index of the raw parent of raw link i in a tree (None for the root)
RawParentIdx(i) ==
    {raw_joints[k].parent[2] : k \in {k \in 1..Len(raw_joints) : raw_joints[k].child = LinkName(i)}}

\* index of the raw joint whose child is raw link i (None for the root)
RawJointIdxAbove(i) ==
    {k - 1 : k \in {k \in 1..Len(raw_joints) : raw_joints[k].child = LinkName(i)}}

RECURSIVE RawAncestors(_, _)
RawAncestors(i, fuel) ==
    IF fuel = 0 \/ IsNone(RawParentIdx(i)) THEN {}
    ELSE RawParentIdx(i) \cup RawAncestors(Unwrap(RawParentIdx(i)), fuel - 1)

RawRootIdx == CHOOSE i \in 0..(raw_num_links - 1) : IsNone(RawParentIdx(i))

\* positions <<layer, slot>> at which link i occurs in the traversal layers
LayerPositions(i) ==
    {<<k, m>> \in (1..Len(link_tree_traversal_layers)) \X (1..MaxLinks + MaxChainAdds) :
        m <= Len(link_tree_traversal_layers[k]) /\ link_tree_traversal_layers[k][m] = i}

LayerOf(i) == (CHOOSE pos \in LayerPositions(i) : TRUE)[1] - 1

\* ---------------------------------------------------------------------------
\* C1: after construction from a single tree, the traversal layers hold every
\* link exactly once, layer 0 is exactly the world link, and every other link
\* is in the layer right after the layer of its parent.
\* ---------------------------------------------------------------------------
C1_LayersPartitionTree ==
    (BuiltOk /\ op.name = "new") =>
        /\ world_link_idx = RawRootIdx
        /\ link_tree_traversal_layers[1] = <<world_link_idx>>
        /\ \A i \in Idxs(links) : Cardinality(LayerPositions(i)) = 1
        /\ \A i \in Idxs(links) :
              /\ At(links, i).preceding_link_idx = RawParentIdx(i)
              /\ i # world_link_idx => LayerOf(i) = LayerOf(Unwrap(RawParentIdx(i))) + 1

C1_Witness ==
    /\ BuiltOk /\ op.name = "new"
    /\ world_link_idx # 0
    /\ Len(link_tree_traversal_layers) = 3
    /\ Len(links) = 3

\* ---------------------------------------------------------------------------
\* C2 (as claimed): after set_link_tree_traversal_info the layers hold exactly
\* the links whose present flag is true, each exactly once.
\* ---------------------------------------------------------------------------
C2_LayersAreThePresentLinks ==
    (BuiltOk /\ op.name = "set_link_tree_traversal_info") =>
        \A i \in Idxs(links) :
            Cardinality(LayerPositions(i)) = IF At(links, i).present THEN 1 ELSE 0

\* a link is connected to the world link through present links
RECURSIVE PresentUpToWorld(_, _)
PresentUpToWorld(i, fuel) ==
    \/ i = world_link_idx
    \/ /\ fuel > 0
       /\ At(links, i).present
       /\ IsSome(RawParentIdx(i))
       /\ PresentUpToWorld(Unwrap(RawParentIdx(i)), fuel - 1)

\* C2 (amended): after set_link_tree_traversal_info the layers hold, each
\* exactly once, the world link and exactly those links that are present and
\* whose ancestors below the world link are all present; a present link below a
\* link that is not present is in no layer.
C2_LayersArePresentLinksUnderPresentAncestors ==
    (BuiltOk /\ op.name = "set_link_tree_traversal_info") =>
        \A i \in Idxs(links) :
            Cardinality(LayerPositions(i)) = IF PresentUpToWorld(i, Len(links)) THEN 1 ELSE 0

C2_Witness ==
    /\ BuiltOk /\ op.name = "set_link_tree_traversal_info"
    /\ \E i \in Idxs(links) : At(links, i).present /\ LayerPositions(i) = {}
    /\ \E i \in Idxs(links) : ~At(links, i).present /\ LayerPositions(i) = {}

\* ---------------------------------------------------------------------------
\* C3: after construction, link_chains[idx][idx] is the one-element path [idx]
\* and get_link_chain(idx, idx) returns Some([idx]), for every link idx.
\* ---------------------------------------------------------------------------
C3_TrivialChainOnDiagonal ==
    BuiltOk =>
        \A idx \in Idxs(links) :
            /\ link_chains[idx, idx] = <<idx>>
            /\ get_link_chain(links, link_chains, idx, idx) = Ok(Some(<<idx>>))

\* ---------------------------------------------------------------------------
\* C4: after construction from a tree, for links a # b the chain from a to b is
\* non-empty exactly when a is a proper ancestor of b; a non-empty chain starts
\* at a, ends at b and each of its links is followed by one of its children;
\* get_link_chain returns None for every other pair.
\* ---------------------------------------------------------------------------
C4_ChainsAreAncestorPaths ==
    BuiltOk =>
        \A a \in Idxs(links), b \in Idxs(links) :
            a # b =>
                LET chain == link_chains[a, b]
                IN /\ (chain # <<>>) <=> (a \in RawAncestors(b, Len(links)))
                   /\ chain # <<>> =>
                         /\ chain[1] = a
                         /\ chain[Len(chain)] = b
                         /\ \A k \in 1..(Len(chain) - 1) : RawParentIdx(chain[k + 1]) = Some(chain[k])
                         /\ get_link_chain(links, link_chains, a, b) = Ok(Some(chain))
                   /\ chain = <<>> => get_link_chain(links, link_chains, a, b) = Ok(None)

C4_Witness ==
    /\ BuiltOk /\ op.name = "get_link_chain"
    /\ ret.kind = "Ok" /\ IsSome(ret.val) /\ Len(Unwrap(ret.val)) = 3
    /\ \E a \in Idxs(links), b \in Idxs(links) : a # b /\ link_chains[a, b] = <<>>

\* ---------------------------------------------------------------------------
\* C5: get_preceding_actuated_joint_idx(link) returns the nearest joint with at
\* least one DOF on the way from the link up to the root, passing any number of
\* joints without DOFs; None only when there is no such joint; never a panic
\* for a link index in range.
\* ---------------------------------------------------------------------------
RECURSIVE NearestActuatedJointAbove(_, _)
NearestActuatedJointAbove(i, fuel) ==
    IF fuel = 0 \/ IsNone(RawJointIdxAbove(i)) THEN None
    ELSE IF JointNumDofs(At(joints, Unwrap(RawJointIdxAbove(i)))) > 0 THEN RawJointIdxAbove(i)
    ELSE NearestActuatedJointAbove(Unwrap(RawParentIdx(i)), fuel - 1)

C5_NearestActuatedJoint ==
    (op.name = "get_preceding_actuated_joint_idx" /\ op.a < Len(links)) =>
        ret = Ok(NearestActuatedJointAbove(op.a, Len(links)))

\* ---------------------------------------------------------------------------
\* C6: construction ends with an error when a joint names a parent or child
\* link that does not exist, or when the number of links without a preceding
\* link is zero or more than one.
\* ---------------------------------------------------------------------------
RawNamesUnknownLink ==
    \E k \in 1..Len(raw_joints) : raw_joints[k].parent = GhostName \/ raw_joints[k].child = GhostName

NumLinksWithoutPrecedingLink ==
    Cardinality({i \in Idxs(links) : IsNone(At(links, i).preceding_link_idx)})

C6_MalformedRecordsAreRejected ==
    (op.name = "new" /\ phase \in {"built", "failed"}
        /\ (RawNamesUnknownLink \/ NumLinksWithoutPrecedingLink # 1)) =>
        (ret.kind = "Err" /\ phase = "failed")

\* ---------------------------------------------------------------------------
\* C7: every operation that takes a link or joint index reports an
\* index-out-of-bounds error, without a panic, when the index is not below the
\* number of links or joints.
\* ---------------------------------------------------------------------------
LinkIndexedOps == {"get_link_by_idx", "get_all_downstream_links", "get_preceding_actuated_joint_idx",
                   "set_link_as_present", "set_link_as_not_present"}
JointIndexedOps == {"get_joint_by_idx", "set_joint_as_present", "set_joint_as_not_present",
                    "set_fixed_joint", "set_fixed_joint_sub_dof"}

CallOutOfBounds ==
    \/ op.name \in LinkIndexedOps /\ op.a >= Len(links)
    \/ op.name \in JointIndexedOps /\ op.a >= Len(joints)
    \/ op.name = "get_link_chain" /\ (op.a >= Len(links) \/ op.b >= Len(links))
    \/ op.name = "get_link_with_highest_tree_traversal_layer"
          /\ \E k \in 1..Len(op.a) : op.a[k] >= Len(links)

C7_OutOfBoundsIndexIsAnError ==
    CallOutOfBounds => (ret = ErrIdx /\ phase # "panicked")

\* ---------------------------------------------------------------------------
\* C8: set_link_as_not_present(idx) on a link in range that is not the world
\* link clears the present flag of that link and of exactly the joints whose
\* parent is that link, and changes no other link, no other joint flag, not
\* the traversal layers and not the link chains; on the world link it changes
\* nothing and returns Ok.
\* ---------------------------------------------------------------------------
C8_Step ==
    (BuiltOk /\ op'.name = "set_link_as_not_present" /\ op'.a < Len(links)) =>
        /\ ret' = Ok(0)
        /\ IF op'.a = RawRootIdx
           THEN model' = model
           ELSE /\ links' = [links EXCEPT ![op'.a + 1].present = FALSE]
                /\ \A k \in 1..Len(joints) :
                      joints'[k] = IF raw_joints[k].parent = LinkName(op'.a)
                                   THEN [joints[k] EXCEPT !.present = FALSE]
                                   ELSE joints[k]
                /\ Len(joints') = Len(joints)
                /\ link_tree_traversal_layers' = link_tree_traversal_layers
                /\ link_tree_max_depth' = link_tree_max_depth
                /\ link_chains' = link_chains
                /\ world_link_idx' = world_link_idx

C8_DisablingALinkFrame == [][C8_Step]_vars

C8_Witness ==
    /\ BuiltOk /\ op.name = "set_link_as_not_present" /\ op.a < Len(links)
    /\ op.a # world_link_idx
    /\ ~At(links, op.a).present
    /\ \E k \in 1..Len(joints) : raw_joints[k].parent = LinkName(op.a) /\ ~joints[k].present
    /\ \E k \in 1..Len(joints) : raw_joints[k].parent # LinkName(op.a) /\ joints[k].present
    /\ Cardinality(LayerPositions(op.a)) = 1

\* ---------------------------------------------------------------------------
\* C9: parent/child agreement after construction and after insertion of a
\* mobility base: c is in the children list of p exactly when the preceding
\* link of c is p, and the child link of every joint has that joint as its
\* preceding joint.
\* ---------------------------------------------------------------------------
C9_ParentChildAgreement ==
    BuiltOk =>
        /\ \A p \in Idxs(links), c \in Idxs(links) :
              Contains(At(links, p).children_link_idxs, c) <=> At(links, c).preceding_link_idx = Some(p)
        /\ \A j \in Idxs(joints) :
              IsSome(At(joints, j).child_link_idx) =>
                  At(links, Unwrap(At(joints, j).child_link_idx)).preceding_joint_idx = Some(j)

\* ---------------------------------------------------------------------------
\* C10: convert_state_to_full_state of a DOF state of length num_dofs returns a
\* Full state of length num_axes whose fixed slots hold the fixed values of
\* their axes and whose free slots hold the DOF values in their order.
\* ---------------------------------------------------------------------------
\* number of free axes among the first i axes
FreeAxesBefore(axes, i) == Cardinality({k \in 1..i : IsNone(axes[k].fixed_value)})

C10_DofStateExpandsToFullState ==
    (op.name = "convert_state_to_full_state" /\ IsSome(robot_state_module)
        /\ op.a.robot_state_type = "DOF"
        /\ Len(op.a.state) = Unwrap(robot_state_module).num_dofs) =>
        LET sm == Unwrap(robot_state_module)
            axes == sm.ordered_joint_axes
        IN /\ ret.kind = "Ok"
           /\ ret.val.robot_state_type = "Full"
           /\ Len(ret.val.state) = sm.num_axes
           /\ \A i \in 1..Len(axes) :
                 ret.val.state[i] = IF IsSome(axes[i].fixed_value)
                                    THEN Unwrap(axes[i].fixed_value)
                                    ELSE op.a.state[FreeAxesBefore(axes, i)]

\* ---------------------------------------------------------------------------
\* C11: convert_state_to_dof_state of a Full state of length num_axes returns a
\* DOF state of length num_dofs holding exactly the values of the free (not
\* fixed) axes, in axis order.
\* ---------------------------------------------------------------------------
\* position (1-based) in the axis order of the k-th free axis
FreeAxisPosition(axes, k) ==
    CHOOSE i \in 1..Len(axes) : IsNone(axes[i].fixed_value) /\ FreeAxesBefore(axes, i) = k

C11_FullStateGathersToDofState ==
    (op.name = "convert_state_to_dof_state" /\ IsSome(robot_state_module)
        /\ op.a.robot_state_type = "Full"
        /\ Len(op.a.state) = Unwrap(robot_state_module).num_axes) =>
        LET sm == Unwrap(robot_state_module)
            axes == sm.ordered_joint_axes
        IN /\ ret.kind = "Ok"
           /\ ret.val.robot_state_type = "DOF"
           /\ Len(ret.val.state) = sm.num_dofs
           /\ \A k \in 1..sm.num_dofs :
                 ret.val.state[k] = op.a.state[FreeAxisPosition(axes, k)]

\* ---------------------------------------------------------------------------
\* C12: for every valid DOF state s (DOF tag, length num_dofs), also of a
\* module with fewer dofs than axes, converting s to a full state and the
\* result back to a DOF state succeeds and gives s.
\* ---------------------------------------------------------------------------
C12_DofRoundTripIsIdentity ==
    (op.name = "dof_state_round_trip" /\ IsSome(robot_state_module)
        /\ op.a.robot_state_type = "DOF"
        /\ Len(op.a.state) = Unwrap(robot_state_module).num_dofs) =>
        (ret.kind = "Ok" /\ ret.val = op.a)

\* ---------------------------------------------------------------------------
\* C13: adding two RobotStates returns an error value, never a panic and never
\* a state, whenever their tags differ or their lengths differ; when both
\* agree the result has the common tag, the common length and the element-wise
\* sum.
\* ---------------------------------------------------------------------------
C13_AddRejectsMismatchedStates ==
    op.name = "add" =>
        IF op.a.robot_state_type # op.b.robot_state_type \/ Len(op.a.state) # Len(op.b.state)
        THEN ret.kind = "Err"
        ELSE /\ ret.kind = "Ok"
             /\ ret.val.robot_state_type = op.a.robot_state_type
             /\ Len(ret.val.state) = Len(op.a.state)
             /\ \A k \in 1..Len(op.a.state) : ret.val.state[k] = op.a.state[k] + op.b.state[k]

\* ---------------------------------------------------------------------------
\* C14: multiply, displacement and distance_function on poses of different
\* pose types return an error when conversion_if_necessary is false; when it is
\* true they give what the operation gives on the left operand and the right
\* operand converted to the left operand's type, they make exactly one
\* conversion, and a pose they return has the left operand's type.
\* ---------------------------------------------------------------------------
PoseOperation(name, self, other, conversion_if_necessary) ==
    IF name = "multiply" THEN pose_multiply(self, other, conversion_if_necessary)
    ELSE IF name = "displacement" THEN pose_displacement(self, other, conversion_if_necessary)
    ELSE pose_distance_function(self, other, conversion_if_necessary)

C14_MixedPoseTypes ==
    (op.name \in {"multiply", "displacement", "distance_function"}
        /\ get_pose_type(op.a[1]) # get_pose_type(op.a[2])) =>
        IF ~op.b THEN ret.kind = "Err"
        ELSE LET self == op.a[1]
                 converted == pose_convert(op.a[2], get_pose_type(self))
                 direct == PoseOperation(op.name, self, converted, FALSE)
             IN /\ get_pose_type(converted) = get_pose_type(self)
                /\ direct.res.kind = "Ok"
                /\ direct.conversions = 0
                /\ ret = direct.res
                /\ conversions = 1
                /\ op.name # "distance_function" => get_pose_type(ret.val) = get_pose_type(self)

C14_Witness ==
    /\ op.name = "multiply"
    /\ op.b
    /\ get_pose_type(op.a[1]) = "HomogeneousMatrix"
    /\ get_pose_type(op.a[2]) = "UnitQuaternionAndTranslation"
    /\ op.a[2].data.translation # <<0, 0, 0>>
    /\ op.a[2].data.rotation.data[1] = -1
    /\ ret.kind = "Ok"
    /\ conversions = 1
    /\ get_pose_type(ret.val) = "HomogeneousMatrix"
    /\ HM_rotation(ret.val.data) # Diag3(1, 1, 1)

\* ---------------------------------------------------------------------------
\* Notions of the shape collections used to state the properties
\* ---------------------------------------------------------------------------
SkipOf(collection, i, j) == SquareArray2D_data_cell(collection.shape_collection.skips, i, j)
AverageDistanceOf(collection, i, j) ==
    SquareArray2D_data_cell(collection.shape_collection.average_distances, i, j)
ShapeIdxs(collection) == 0..(Len(collection.shape_collection.shapes) - 1)
LinkOfShape(collection, i) == At(collection.shape_collection.shapes, i)[1]

\* the pair of two different shape indices, smaller index first
PairOf(i, j) == IF i < j THEN <<i, j>> ELSE <<j, i>>

\* position of the representation of a collection among all representations
SchemeOf(collection) ==
    CHOOSE s \in 1..Len(AllRepresentations) :
        AllRepresentations[s] = collection.robot_link_shape_representation

\* ---------------------------------------------------------------------------
\* C15: in every collection the module holds, after preprocessing and after
\* any calls of set_robot_joint_state_as_non_collision and reset, the skip
\* matrix and the average-distance matrix are symmetric and every diagonal
\* entry of the skip matrix is true.
\* ---------------------------------------------------------------------------
C15_SymmetricMatrices ==
    \A k \in 1..Len(robot_shape_collections) :
        LET collection == robot_shape_collections[k]
        IN \A i \in ShapeIdxs(collection), j \in ShapeIdxs(collection) :
              /\ SkipOf(collection, i, j) = SkipOf(collection, j, i)
              /\ AverageDistanceOf(collection, i, j) = AverageDistanceOf(collection, j, i)
              /\ SkipOf(collection, i, i)

C15_Witness ==
    /\ pp.stage = "done"
    /\ pp.calls = 2
    /\ op.name = "reset_robot_geometric_shape_collection"
    /\ op.a = "ConvexShapes"
    /\ Len(robot_shape_collections) = Len(AllRepresentations)
    /\ SkipOf(robot_shape_collections[1], 0, 2)
    /\ SkipOf(robot_shape_collections[1], 2, 0)
    /\ ~SkipOf(robot_shape_collections[1], 1, 2)
    /\ ~SkipOf(robot_shape_collections[2], 0, 2)
    /\ AverageDistanceOf(robot_shape_collections[1], 2, 1) = <<7100, 71>>

\* ---------------------------------------------------------------------------
\* C16: after the preprocessing of a scheme with N samples, pair (i, j) is
\* skipped exactly when i = j, or both shapes are on one link, or N >= 70 and
\* more than 99% of the samples had distance <= 0, or N >= 1000 and no sample
\* had distance <= 0.
\* ---------------------------------------------------------------------------
\* number of the samples 0 .. N - 1 at which a pair of the pattern has distance <= 0
CollisionsSampled(pattern, N) ==
    Cardinality({i \in 0..(N - 1) : SampleDistance(pattern, i) <= 0})

C16_SkipRule ==
    (pp.stage \in {"scheme", "done"} /\ Len(robot_shape_collections) > 0) =>
        LET collection == robot_shape_collections[Len(robot_shape_collections)]
            N == pp.count
        IN \A i \in ShapeIdxs(collection), j \in ShapeIdxs(collection) :
              LET collided == IF i = j THEN 0
                              ELSE CollisionsSampled(EnvPattern(env)[PairOf(i, j)], N)
              IN SkipOf(collection, i, j) <=>
                    \/ i = j
                    \/ LinkOfShape(collection, i) = LinkOfShape(collection, j)
                    \/ N >= 70 /\ 100 * collided > 99 * N
                    \/ N >= 1000 /\ collided = 0

C16_Witness ==
    /\ pp.stage = "done"
    /\ pp.count >= 1000
    /\ EnvPattern(env)[<<0, 1>>] = "once"
    /\ EnvPattern(env)[<<0, 2>>] = "once"
    /\ EnvPattern(env)[<<1, 2>>] = "apart"
    /\ SkipOf(robot_shape_collections[6], 0, 1)
    /\ ~SkipOf(robot_shape_collections[6], 0, 2)
    /\ SkipOf(robot_shape_collections[6], 1, 2)

\* ---------------------------------------------------------------------------
\* C17: the sampling loop ends after the first sample at whose completion the
\* time budget is over and at least 70 samples are drawn, or after 100000
\* samples, whichever comes first; with a budget that is over from the start
\* exactly 70 samples are drawn.
\* ---------------------------------------------------------------------------
\* number of the first sample (from 1) at whose completion the budget of the
\* scheme is over on the clock of the run; beyond every sample when the clock
\* stands still
FirstSampleAfterBudget(e, scheme) ==
    IF EnvSampleMillis(e) = 0 THEN 100000 + 1
    ELSE (stop_at_min_sample_duration(At(AllRepresentations, scheme)) \div EnvSampleMillis(e)) + 1

C17_SamplingStops ==
    pp.stage = "sampled" =>
        LET first == FirstSampleAfterBudget(env, pp.scheme)
            due == IF first >= 70 THEN first ELSE 70
        IN pp.count = IF due <= 100000 THEN due ELSE 100000

\* ---------------------------------------------------------------------------
\* C18: when the shape loading, the forward kinematics, the pose recovery, the
\* distance query or a signature lookup of the preprocessing of a scheme
\* fails, the error is returned, robot_shape_collections has no collection of
\* that scheme, and neither the current nor the permanent asset has one.
\* ---------------------------------------------------------------------------
C18_FailedSchemeLeavesNoTrace ==
    (pp.stage = "failed" /\ op.a \in {"shapes", "sample"}) =>
        LET failed == At(AllRepresentations, pp.scheme)
        IN /\ ret.kind = "Err"
           /\ CollectionPosition(robot_shape_collections, failed) = 0
           /\ IsSome(current_asset) => CollectionPosition(Unwrap(current_asset), failed) = 0
           /\ IsSome(permanent_asset) => CollectionPosition(Unwrap(permanent_asset), failed) = 0

C18_Witness ==
    /\ pp.stage = "failed"
    /\ op.a = "sample"
    /\ pp.scheme = 1
    /\ ret.kind = "Err"
    /\ Len(robot_shape_collections) = 1
    /\ robot_shape_collections[1].robot_link_shape_representation = "Cubes"
    /\ current_asset = Some(robot_shape_collections)
    /\ permanent_asset = Some(robot_shape_collections)

\* ---------------------------------------------------------------------------
\* C19: set_robot_joint_state_as_non_collision sets skip, in every scheme, for
\* exactly the pairs whose contact has a distance d with -0.12 < d <= 0; every
\* other entry keeps its value, and no entry goes from true to false.
\* ---------------------------------------------------------------------------
ShallowContact(contact) ==
    IsSome(contact) /\ Unwrap(contact) > -12 /\ Unwrap(contact) <= 0

C19_Step ==
    (op'.name = "set_robot_joint_state_as_non_collision" /\ pp'.calls = pp.calls + 1) =>
        /\ ret'.kind = "Ok"
        /\ Len(robot_shape_collections') = Len(robot_shape_collections)
        /\ \A k \in 1..Len(robot_shape_collections) :
              LET before == robot_shape_collections[k]
                  after == robot_shape_collections'[k]
                  contacts == op'.a[SchemeOf(before)]
              IN \A i \in ShapeIdxs(before), j \in ShapeIdxs(before) :
                    SkipOf(after, i, j) <=>
                        \/ SkipOf(before, i, j)
                        \/ i # j /\ ShallowContact(contacts[PairOf(i, j)])

C19_MarksShallowContacts == [][C19_Step]_vars

C19_Witness ==
    /\ op.name = "set_robot_joint_state_as_non_collision"
    /\ ret.kind = "Ok"
    /\ pp.calls = 1
    /\ op.a[1][<<0, 2>>] = Some(-11)
    /\ op.a[2][<<0, 2>>] = NoContact
    /\ ~SkipOf(preprocessed[1], 0, 2)
    /\ SkipOf(robot_shape_collections[1], 0, 2)
    /\ SkipOf(robot_shape_collections[1], 2, 0)
    /\ ~SkipOf(robot_shape_collections[2], 0, 2)
    /\ ~SkipOf(robot_shape_collections[1], 1, 2)

\* ---------------------------------------------------------------------------
\* C20: reset_robot_geometric_shape_collection(scheme) makes the collection of
\* the scheme equal to the one stored right after preprocessing, leaves the
\* collection of every other scheme as it is, and does not write the permanent
\* asset.
\* ---------------------------------------------------------------------------
C20_Step ==
    (op'.name = "reset_robot_geometric_shape_collection" /\ IsSome(permanent_asset)) =>
        /\ ret'.kind \in {"Ok", "Err"}
        /\ permanent_asset' = permanent_asset
        /\ Len(robot_shape_collections') = Len(robot_shape_collections)
        /\ \A k \in 1..Len(robot_shape_collections) :
              IF robot_shape_collections[k].robot_link_shape_representation = op'.a
              THEN robot_shape_collections'[k] = preprocessed[k]
              ELSE robot_shape_collections'[k] = robot_shape_collections[k]

C20_ResetRestoresSnapshot == [][C20_Step]_vars

C20_Witness ==
    /\ op.name = "reset_robot_geometric_shape_collection"
    /\ op.a = "Cubes"
    /\ ret.kind = "Ok"
    /\ pp.calls = 2
    /\ robot_shape_collections[1] = preprocessed[1]
    /\ robot_shape_collections[2] # preprocessed[2]
    /\ SkipOf(robot_shape_collections[2], 0, 2)
    /\ ~SkipOf(robot_shape_collections[1], 0, 2)
    /\ permanent_asset = Some(preprocessed)
    /\ current_asset = Some(robot_shape_collections)

\* ---------------------------------------------------------------------------
\* C21: shape_collection_query for a representation that has no collection in
\* the module returns an error of kind SchemeNotPreprocessed, for every query
\* variant; it never returns an Ok output group.
\* ---------------------------------------------------------------------------
C21_MissingSchemeIsSchemeNotPreprocessed ==
    (op.name = "shape_collection_query"
        /\ CollectionPosition(robot_shape_collections, op.b) = 0) =>
        (ret.kind = "Err" /\ ret.val = "SchemeNotPreprocessed")

\* ---------------------------------------------------------------------------
\* C22: after RobotModelModule::new, preceding_actuated_joint_idxs has one
\* entry per link, and get_all_link_idxs_with_given_preceding_actuated_joint_idx(j)
\* on the model as built returns exactly the links whose closest preceding
\* actuated joint is j.
\* ---------------------------------------------------------------------------
LinksGovernedByJoint(j) ==
    SelectSeq([i \in 1..Len(links) |-> i - 1],
              LAMBDA i : NearestActuatedJointAbove(i, Len(links)) = Some(j))

C22_PrecedingActuatedJointsAfterNew ==
    /\ (BuiltOk /\ op.name = "new") => Len(preceding_actuated_joint_idxs) = Len(links)
    /\ (BuiltOk /\ chain_adds = 0
            /\ op.name = "get_all_link_idxs_with_given_preceding_actuated_joint_idx") =>
            ret = Ok(LinksGovernedByJoint(op.a))

\* ---------------------------------------------------------------------------
\* C23: link_tree_max_depth is the index, from 0, of the deepest traversal
\* layer: the number of traversal layers minus one, after construction and
\* after every recomputation of the layers.
\* ---------------------------------------------------------------------------
C23_MaxDepthIsLastLayerIndex ==
    BuiltOk => link_tree_max_depth = Len(link_tree_traversal_layers) - 1

\* ---------------------------------------------------------------------------
\* C24: new_try_auto_type tags a vector of length num_dofs as DOF (also when
\* num_dofs = num_axes), a vector of length num_axes only as Full, and returns
\* an error for any other length.
\* ---------------------------------------------------------------------------
C24_AutoTypeTriesDofFirst ==
    (op.name = "new_try_auto_type" /\ IsSome(robot_state_module)) =>
        LET sm == Unwrap(robot_state_module)
        IN IF Len(op.a) = sm.num_dofs
           THEN ret = Ok([state |-> op.a, robot_state_type |-> "DOF"])
           ELSE IF Len(op.a) = sm.num_axes
           THEN ret = Ok([state |-> op.a, robot_state_type |-> "Full"])
           ELSE ret.kind = "Err"

\* ---------------------------------------------------------------------------
\* C25: in every pose representation multiply_by_point applies the forward
\* transform of the pose and inverse_multiply_by_point its inverse: the point
\* multiply_by_point gives is the same in every representation of the pose,
\* and inverse_multiply_by_point of it is the point given.
\* ---------------------------------------------------------------------------
\* the point a pose sends a point to, by the homogeneous matrix of the pose
ForwardTransform(pose, point) ==
    LET h == pose_convert(pose, "HomogeneousMatrix").data
    IN [r \in 1..3 |-> h.matrix[r][1] * point[1] + h.matrix[r][2] * point[2]
                          + h.matrix[r][3] * point[3] + h.matrix[r][4]]

C25_PointTransforms ==
    /\ op.name = "multiply_by_point" => ret.val = ForwardTransform(op.a[1], op.a[2])
    /\ op.name = "point_round_trip" => ret.val = op.a[2]
    /\ op.name = "inverse_multiply_by_point" =>
           ForwardTransform(op.a[1], ret.val) = op.a[2]

\* ---------------------------------------------------------------------------
\* C26: the module new(configuration, false) returns has the kinematics of
\* the configuration supplied, when it was loaded from the current asset as
\* when it was preprocessed: loading never puts the configuration stored in
\* the asset in its place.
\* ---------------------------------------------------------------------------
C26_NewUsesSuppliedConfiguration ==
    (op.name = "robot_geometric_shape_module_new" /\ ret.kind = "Ok") =>
        configurations.module = op.b

\* ---------------------------------------------------------------------------
\* C27: when set_robot_joint_state_as_non_collision returns an error (a
\* query, a signature lookup or the final save failed), the call has changed
\* no skip matrix of the module in memory.
\* ---------------------------------------------------------------------------
C27_Step ==
    (/\ op'.name = "set_robot_joint_state_as_non_collision"
     /\ pp'.calls = pp.calls + 1
     /\ ret'.kind = "Err") =>
        robot_shape_collections' = robot_shape_collections

C27_ErrorLeavesSkipMatrices == [][C27_Step]_vars

\* ---------------------------------------------------------------------------
\* C28: whenever no call of new is running, a current or permanent asset that
\* exists holds one collection for each of the six schemes, in the fixed
\* order; this holds also after a preprocessing run that failed part-way.
\* ---------------------------------------------------------------------------
HoldsAllSchemes(asset) ==
    IsSome(asset) =>
        /\ Len(Unwrap(asset)) = Len(AllRepresentations)
        /\ \A k \in 1..Len(AllRepresentations) :
              Unwrap(asset)[k].robot_link_shape_representation = AllRepresentations[k]

C28_AssetsHoldAllSchemes ==
    pp.stage \in {"idle", "failed", "done"} =>
        HoldsAllSchemes(current_asset) /\ HoldsAllSchemes(permanent_asset)

\* ---------------------------------------------------------------------------
\* C29: recover_poses succeeds on every forward-kinematics result of the
\* configuration of the module, also one with a mobility-base link appended
\* to the links of the base model: a query of a scheme that has a collection
\* gets the pose of its link for every shape.
\* ---------------------------------------------------------------------------
C29_RecoverPosesOnOwnConfiguration ==
    (op.name = "shape_collection_query"
     /\ CollectionPosition(robot_shape_collections, op.b) # 0) =>
        /\ ret.kind = "Ok"
        /\ LET collection == robot_shape_collections[CollectionPosition(robot_shape_collections, op.b)]
           IN \A k \in 1..Len(collection.shape_collection.shapes) :
                 ret.val.poses[k] = Some(collection.shape_collection.shapes[k][1])

\* ---------------------------------------------------------------------------
\* C30: the construction of the graph terminates for every finite set of raw
\* links and joints: a call of new on raw data ends with a built model or an
\* error, also when the parent/child references have a cycle or no link is
\* without a preceding link.
\* ---------------------------------------------------------------------------
C30_ConstructionTerminates == (phase = "raw") ~> (phase \in {"built", "panicked"})

====
